---- MODULE Spec2Model ----
(***************************************************************************)
(* A model of the JSON table viewer: the structure inferencer              *)
(* (JSONParser), the table renderer (TableRenderer) and the orchestrator   *)
(* (JSONTableViewer) of src/scripts.                                        *)
(*                                                                         *)
(* JSON values are tagged records [t, v].  A property key is the sequence  *)
(* of its '.'-separated segments: <<"a","b">> is the key "a.b", so that    *)
(* `${prefix}.${key}` is concatenation, path.split('.') is the sequence    *)
(* itself and path.includes('.') is Len(path) > 1.  An object is the       *)
(* ordered list of its own (key, value) properties.  Segments are never    *)
(* empty, never integer-like and never the name of a built-in property     *)
(* (length, constructor, ...): own-property lookup is all a read does; the *)
(* index keys "0", "1", ... exist only as the keys of arrays and strings.  *)
(* A string value carries the segments of its text, every segment one      *)
(* character long; the strings of the explored inputs are one character.   *)
(***************************************************************************)
EXTENDS Integers, Sequences, FiniteSets, TLC

VARIABLES
    engine,         \* the script engine whose Array.prototype.sort runs: "v8" or "sm"
    storageMode,    \* localStorage: "ok", "quota" (setItem throws) or "denied"
                    \* (every access throws)
    jsonInput,      \* JSONTableViewer.jsonInput.value (the text box)
    result,         \* the last value returned by JSONParser.parseJSON
    currentData,    \* JSONTableViewer.currentData
    rCurrentData,   \* TableRenderer.currentData
    columnTypes,    \* TableRenderer.columnTypes: column key -> display type
    storedTypes,    \* the localStorage item 'jsonTableColumnTypes'
    shown,          \* which of emptyState/errorState/loadingState/tableWrapper is displayed
    tableHead,      \* the header cells: the column keys, in order, with their widths
    tableBody,      \* the body rows: [index, row, cells]: data-row-index, the record
                    \* the row was rendered from, the cells aligned with the headers
    noResults,      \* the number of 'no-results' messages in the table container
    containerWidth, \* tableContainer.offsetWidth
    searchTimeout,  \* JSONTableViewer.searchTimeout: the pending debounced search
    resizeTimeout,  \* TableRenderer.resizeTimeout: a debounced resize is pending
    widthTimer,     \* a width pass scheduled by renderTable is pending
    autoSaveTimer,  \* StateManager.autoSaveTimer: the pending auto-save and its state
    savedState,     \* the localStorage item 'json-table-viewer-state'
    theme,          \* ThemeManager: currentTheme, systemTheme, autoTheme, the
                    \* data-theme applied to the document, the stored settings
    nested,         \* the nested value a chain of expansions of a cell has reached
    reads,          \* the FileReaders of processFile that have not completed
    lastOp          \* the operation that ran last: its name, arguments and outcome

vars == <<engine, storageMode, jsonInput, result, currentData, rCurrentData,
          columnTypes, storedTypes, shown, tableHead, tableBody, noResults,
          containerWidth, searchTimeout, resizeTimeout, widthTimer, autoSaveTimer,
          savedState, theme, nested, reads, lastOp>>

---------------------------------------------------------------------------
(* Bounds of the explored inputs *)
MaxRows == 2      \* longest array
MaxCols == 2      \* longest inner array of an array of arrays
MaxDepth == 2     \* deepest nesting of objects (1 = flat object)

---------------------------------------------------------------------------
(* JSON values *)
Null == [t |-> "null", v |-> 0]
Undefined == [t |-> "undefined", v |-> 0]
Num(n) == [t |-> "number", v |-> n]
\* a number of 10^9 and more is written in two parts: Big(hi, lo) is
\* hi * 10^9 + lo with 0 <= lo < 10^9, and Num(n) is the case hi = 0
Big(hi, lo) == [t |-> "number", v |-> lo, hi |-> hi]
HiOf(x) == IF "hi" \in DOMAIN x THEN x.hi ELSE 0
Str(s) == [t |-> "string", v |-> s]
Bool(b) == [t |-> "boolean", v |-> b]
Arr(s) == [t |-> "array", v |-> s]
Obj(p) == [t |-> "object", v |-> p]

Key(a) == <<a>>

\* typeof x === 'object' && x !== null && !Array.isArray(x)
IsPlainObject(x) == x.t = "object"
\* typeof x === 'object'
TypeofObject(x) == x.t \in {"object", "array", "null"}
\* !x
Falsy(x) ==
    \/ x.t \in {"null", "undefined"}
    \/ x.t = "number" /\ x.v = 0 /\ HiOf(x) = 0
    \/ x.t = "boolean" /\ x.v = FALSE

\* Object.keys / Object.values of a plain object, in property order
ObjectKeys(o) == [i \in 1..Len(o.v) |-> o.v[i][1]]
ObjectValues(o) == [i \in 1..Len(o.v) |-> o.v[i][2]]
HasOwn(o, k) == o.t = "object" /\ \E i \in 1..Len(o.v) : o.v[i][1] = k

\* x.length and x[i] of a value that is not null: arrays and (one-character)
\* strings have a length and elements
HasLength(x) == x.t \in {"array", "string"}
JSLength(x) == Len(x.v)
JSIndex(x, i) ==
    IF x.t = "array" /\ i < Len(x.v) THEN x.v[i + 1]
    ELSE IF x.t = "string" /\ i = 0 THEN x
    ELSE Undefined

\* the index keys "0", "1", ... of arrays and strings
IndexKeys(x) == [i \in 1..JSLength(x) |-> Key(ToString(i - 1))]
IsIndexKey(x, k) == HasLength(x) /\ \E i \in 1..JSLength(x) : IndexKeys(x)[i] = k

\* x[k] for a value x that is neither null nor undefined
GetProp(x, k) ==
    IF HasOwn(x, k)
    THEN x.v[CHOOSE i \in 1..Len(x.v) : x.v[i][1] = k][2]
    ELSE IF IsIndexKey(x, k)
    THEN JSIndex(x, (CHOOSE i \in 1..JSLength(x) : IndexKeys(x)[i] = k) - 1)
    ELSE Undefined

\* Object.keys(x) for a value with typeof 'object' that is not null
Keys(x) == IF x.t = "array" THEN IndexKeys(x) ELSE ObjectKeys(x)

\* o[k] = val on a plain object: an existing property keeps its place
SetProp(o, k, val) ==
    IF HasOwn(o, k)
    THEN Obj([i \in 1..Len(o.v) |-> IF o.v[i][1] = k THEN <<k, val>> ELSE o.v[i]])
    ELSE Obj(Append(o.v, <<k, val>>))

SeqMax(s) == CHOOSE m \in {s[i] : i \in 1..Len(s)} : \A j \in 1..Len(s) : s[j] <= m

---------------------------------------------------------------------------
(* JSONParser *)

columnKey(i) == Key("column_" \o ToString(i))

\* data.map((item, index) => ({index: index, value: item}))
IndexValueRows(data) ==
    [i \in 1..Len(data) |->
        Obj(<< <<Key("index"), Num(i - 1)>>, <<Key("value"), data[i]>> >>)]

maxLength_first(data) == IF HasLength(data[1]) THEN JSLength(data[1]) ELSE 0
\* Math.max(...data.map(arr => arr.length)) as the bound of `i < maxLength`:
\* an element without a length makes it NaN, and no column is written
maxLength(data) ==
    IF \E i \in 1..Len(data) : ~HasLength(data[i])
    THEN 0
    ELSE SeqMax([i \in 1..Len(data) |-> JSLength(data[i])])

\* the row built for one inner array
arrayRow(arr, rowIndex, maxLen) ==
    Obj(<< <<Key("_rowIndex"), Num(rowIndex)>> >> \o
        [i \in 1..maxLen |->
            <<columnKey(i - 1),
              IF JSIndex(arr, i - 1) # Undefined THEN JSIndex(arr, i - 1) ELSE Null>>])

\* Object.entries(data).map(([key, value]) => ({key: key, value: value}))
keyValueRows_wide(data) == <<data>>
keyValueRows(data) ==
    [i \in 1..Len(data.v) |->
        Obj(<< <<Key("key"), Str(data.v[i][1])>>, <<Key("value"), data.v[i][2]>> >>)]

\* reduce((longest, current) => current.length > longest.length ? current : longest)
RECURSIVE longestFrom(_, _, _)
longestFrom(arrayValues, longest, i) ==
    IF i > Len(arrayValues) THEN longest
    ELSE longestFrom(arrayValues,
                     IF Len(arrayValues[i].v) > Len(longest.v)
                     THEN arrayValues[i] ELSE longest,
                     i + 1)
longestArray(arrayValues) == longestFrom(arrayValues, arrayValues[1], 2)

\* the flatten closure of flattenObjectToTable, from property i of current on
RECURSIVE flatten(_, _, _, _)
flatten(flattened, current, prefix, i) ==
    IF i > Len(current.v) THEN flattened
    ELSE LET key == current.v[i][1]
             value == current.v[i][2]
             newKey == IF prefix # <<>> THEN prefix \o key ELSE key
         IN flatten(IF IsPlainObject(value)
                    THEN flatten(flattened, value, newKey, 1)
                    ELSE SetProp(flattened, newKey, value),
                    current, prefix, i + 1)

flattenObjectToTable(obj) == << flatten(Obj(<<>>), obj, <<>>, 1) >>

Returned(rows) == [threw |-> FALSE, rows |-> rows]
Thrown == [threw |-> TRUE, rows |-> <<>>]

\* extractTableData: the rows, or the TypeError of reading .length of null
extractTableData(data) ==
    IF data.t = "array" THEN
        IF Len(data.v) = 0 THEN Returned(<<>>)
        ELSE IF IsPlainObject(data.v[1]) THEN Returned(data.v)
        ELSE IF data.v[1].t = "array" THEN
            IF \E i \in 1..Len(data.v) : data.v[i].t = "null"
            THEN Thrown
            ELSE Returned([i \in 1..Len(data.v) |->
                              arrayRow(data.v[i], i - 1, maxLength(data.v))])
        ELSE Returned(IndexValueRows(data.v))
    ELSE IF data.t = "object" THEN
        LET arrayValues == SelectSeq(ObjectValues(data), LAMBDA x : x.t = "array")
            longest == longestArray(arrayValues)
            hasNestedObjects ==
                \E i \in 1..Len(data.v) : IsPlainObject(data.v[i][2])
        IN IF /\ Len(arrayValues) > 0
              /\ Len(longest.v) > 0
              /\ IsPlainObject(longest.v[1])
           THEN Returned(longest.v)
           ELSE IF /\ Len(arrayValues) > 0
                   /\ Len(longest.v) > 0
                   /\ ~TypeofObject(longest.v[1])
           THEN Returned(IndexValueRows(longest.v))
           ELSE IF hasNestedObjects
           THEN Returned(flattenObjectToTable(data))
           ELSE Returned(keyValueRows(data))
    ELSE Returned(<< Obj(<< <<Key("value"), data>> >>) >>)

\* JSONParser.getDataType
parserDataType(data) ==
    IF data.t = "array" THEN "array"
    ELSE IF data.t = "null" THEN "null"
    ELSE IF TypeofObject(data) THEN "object"
    ELSE data.t

(* An input text is what JSON.parse makes of it: blank (empty or white      *)
(* space), the text of a JSON value, or a malformed text with the message  *)
(* of the SyntaxError it raises.  A message is known by the patterns that  *)
(* formatErrorMessage looks for in it.                                     *)
Patterns == {"Unexpected token", "Unexpected end of JSON input",
             "Unexpected string", "Unexpected number", "Unexpected identifier"}
Message(name, has) == [name |-> name, has |-> has]
NoMessage == Message("", {})
BlankText == [kind |-> "blank", val |-> Null, msg |-> NoMessage]
JsonText(val) == [kind |-> "json", val |-> val, msg |-> NoMessage]
BadText(has) == [kind |-> "bad", val |-> Null, msg |-> Message("SyntaxError", has)]
\* reading .length of null
LengthOfNull == Message("TypeError", {})

NoError == [class |-> "null", raw |-> NoMessage]
ErrorOf(class, message) == [class |-> class, raw |-> message]

formatErrorMessage_reordered(message) ==
    IF "Unexpected token" \in message.has THEN ErrorOf("malformed-token", NoMessage)
    ELSE IF "Unexpected string" \in message.has THEN ErrorOf("malformed-string", NoMessage)
    ELSE IF "Unexpected end of JSON input" \in message.has
        THEN ErrorOf("truncated-input", NoMessage)
    ELSE IF "Unexpected number" \in message.has THEN ErrorOf("malformed-number", NoMessage)
    ELSE IF "Unexpected identifier" \in message.has
        THEN ErrorOf("invalid-identifier", NoMessage)
    ELSE ErrorOf("generic", message)
\* formatErrorMessage: the first pattern the message includes decides
formatErrorMessage(message) ==
    IF "Unexpected token" \in message.has THEN ErrorOf("malformed-token", NoMessage)
    ELSE IF "Unexpected end of JSON input" \in message.has
        THEN ErrorOf("truncated-input", NoMessage)
    ELSE IF "Unexpected string" \in message.has THEN ErrorOf("malformed-string", NoMessage)
    ELSE IF "Unexpected number" \in message.has THEN ErrorOf("malformed-number", NoMessage)
    ELSE IF "Unexpected identifier" \in message.has
        THEN ErrorOf("invalid-identifier", NoMessage)
    ELSE ErrorOf("generic", message)

NoResult ==
    [success |-> FALSE, data |-> Null, error |-> NoError, type |-> "null",
     rowCount |-> 0, columnCount |-> 0]

\* JSONParser.parseJSON
parseJSON(jsonString) ==
    IF jsonString.kind = "blank" THEN
        [NoResult EXCEPT !.error = ErrorOf("empty-input", NoMessage)]
    ELSE IF jsonString.kind = "bad" THEN
        [NoResult EXCEPT !.error = formatErrorMessage(jsonString.msg)]
    ELSE
        LET parsedData == jsonString.val
            extracted == extractTableData(parsedData)
            tableData == extracted.rows
        IN IF extracted.threw
           THEN [NoResult EXCEPT !.success = TRUE,
                                 !.data = parsedData,
                                 !.type = parserDataType(parsedData),
                                 !.error = formatErrorMessage(LengthOfNull)]
           ELSE [NoResult EXCEPT !.success = TRUE,
                                 !.data = Arr(tableData),
                                 !.type = parserDataType(parsedData),
                                 !.rowCount = Len(tableData),
                                 !.columnCount =
                                     IF Len(tableData) > 0
                                     THEN Len(Keys(tableData[1])) ELSE 0]

---------------------------------------------------------------------------
(* TableRenderer: headers and cells *)

\* the order of the UTF-16 code units of the segments in use: digits,
\* then '_', then lower-case letters
AtomOrder ==
    [i \in 1..10 |-> ToString(i - 1)] \o <<"_rowIndex", "a", "b", "c">> \o
    [i \in 1..10 |-> "column_" \o ToString(i - 1)] \o <<"index", "key", "value", "x", "y">>
AtomRank(a) == CHOOSE i \in 1..Len(AtomOrder) : AtomOrder[i] = a

\* k1 < k2 as strings: '.' is below every character of a segment
RECURSIVE KeyLess(_, _)
KeyLess(k1, k2) ==
    IF k1 = <<>> THEN k2 # <<>>
    ELSE IF k2 = <<>> THEN FALSE
    ELSE IF Head(k1) = Head(k2) THEN KeyLess(Tail(k1), Tail(k2))
    ELSE AtomRank(Head(k1)) < AtomRank(Head(k2))

\* Array.from(headerSet).sort()
RECURSIVE SortKeys(_)
SortKeys(S) ==
    IF S = {} THEN <<>>
    ELSE LET m == CHOOSE k \in S : \A o \in S : o = k \/ KeyLess(k, o)
         IN <<m>> \o SortKeys(S \ {m})

analyzeJSONStructure(data) ==
    IF Len(data) = 0 THEN "empty"
    ELSE IF IsPlainObject(data[1]) THEN "array_of_objects"
    ELSE IF data[1].t = "array" THEN "array_of_arrays"
    ELSE IF ~TypeofObject(data[1]) THEN "array_of_primitives"
    ELSE "unknown"

extractHeadersFromObjects_firstRow(data) ==
    SortKeys({Keys(data[1])[j] : j \in 1..Len(Keys(data[1]))})
extractHeadersFromObjects(data) ==
    SortKeys(UNION {{Keys(data[i])[j] : j \in 1..Len(Keys(data[i]))} :
                        i \in {r \in 1..Len(data) :
                                  TypeofObject(data[r]) /\ data[r].t # "null"}})

\* flattenObjectKeys: the keys added to keySet
RECURSIVE flattenObjectKeys(_, _)
flattenObjectKeys(obj, prefix) ==
    UNION {LET key == Keys(obj)[i]
               fullKey == IF prefix # <<>> THEN prefix \o key ELSE key
           IN IF IsPlainObject(GetProp(obj, key))
              THEN flattenObjectKeys(GetProp(obj, key), fullKey)
              ELSE {fullKey} : i \in 1..Len(Keys(obj))}

extractHeadersFromNestedStructure(data) ==
    SortKeys(UNION {flattenObjectKeys(data[i], <<>>) :
                        i \in {r \in 1..Len(data) :
                                  TypeofObject(data[r]) /\ data[r].t # "null"}})

\* extractHeaders of a data array (data is never null here)
extractHeaders(data) ==
    IF Len(data) = 0 THEN <<>>
    ELSE LET structure == analyzeJSONStructure(data)
         IN IF structure = "array_of_objects" THEN extractHeadersFromObjects(data)
            ELSE IF structure = "object_with_arrays" THEN <<>>
            ELSE IF structure = "nested_object"
                THEN extractHeadersFromNestedStructure(data)
            ELSE extractHeadersFromObjects(data)

\* the reduce of getNestedValue over the segments of the path
RECURSIVE walkPath(_, _)
walkPath(current, path) ==
    IF path = <<>> THEN current
    ELSE walkPath(IF current.t \in {"null", "undefined"}
                  THEN Undefined
                  ELSE GetProp(current, Key(Head(path))),
                  Tail(path))

getNestedValue(obj, path) ==
    IF Falsy(obj) \/ path = <<>> THEN obj
    ELSE IF Len(path) = 1 THEN GetProp(obj, path)
    ELSE walkPath(obj, path)

\* TableRenderer.getDataType
getDataType(data) ==
    IF data.t = "null" THEN "null"
    ELSE IF data.t = "undefined" THEN "undefined"
    ELSE IF data.t = "array" THEN "array"
    ELSE data.t

---------------------------------------------------------------------------
(* The explored inputs *)

RawKeys == {Key("a"), Key("b"), <<"a", "b">>}
\* the property lists of the explored objects: the order of the keys matters
KeyLists ==
    {<<>>, <<Key("a")>>, <<Key("b")>>, << <<"a", "b">> >>,
     <<Key("a"), Key("b")>>, <<Key("b"), Key("a")>>,
     <<Key("a"), <<"a", "b">> >>, << <<"a", "b">>, Key("a")>>}

Leaves == {Null, Num(1), Str(Key("x"))}
RowLeaves == {Null, Num(1)}

\* the objects with the keys ks, in that order, and values from Vals
ObjectsOver(ks, Vals) ==
    {Obj([i \in 1..Len(ks) |-> <<ks[i], f[i]>>]) : f \in [1..Len(ks) -> Vals]}
ObjectsOf(Vals) == UNION {ObjectsOver(ks, Vals) : ks \in KeyLists}

SeqsUpTo(S, n) == UNION {[1..m -> S] : m \in 0..n}
ArraysOf(S, n) == {Arr(s) : s \in SeqsUpTo(S, n)}

FlatObjects == ObjectsOf(Leaves)

\* objects nested at most d deep; below the top one property at most is an object
RECURSIVE NestedObjects(_)
NestedObjects(d) ==
    IF d <= 1 THEN FlatObjects
    ELSE FlatObjects \cup
         {SetProp(o, o.v[p][1], child) :
             <<o, p, child>> \in
                 {<<o, p, child>> \in
                     FlatObjects \X (1..2) \X NestedObjects(d - 1) : p <= Len(o.v)}}

SmallObjects == {Obj(<<>>), Obj(<< <<Key("a"), Num(1)>> >>), Obj(<< <<Key("b"), Null>> >>)}

\* the elements of the explored arrays: primitives, flat objects, inner arrays
ArrayElements ==
    Leaves \cup ObjectsOf(RowLeaves) \cup ArraysOf(RowLeaves, MaxCols)
\* the array-valued properties of the explored objects
PropertyArrays ==
    ArraysOf({Null, Num(1), Obj(<< <<Key("a"), Num(1)>> >>), Arr(<<Num(1)>>)}, MaxRows)

JsonValues ==
    Leaves
    \cup ArraysOf(ArrayElements, MaxRows)
    \cup NestedObjects(MaxDepth)
    \cup ObjectsOf(SmallObjects)
    \cup ObjectsOf({Num(1), Obj(<< <<Key("a"), Num(1)>> >>)} \cup PropertyArrays)

Texts ==
    {BlankText} \cup {BadText(has) : has \in SUBSET Patterns}
    \cup {JsonText(val) : val \in JsonValues}

---------------------------------------------------------------------------
(* Strings: String(value), toLowerCase, includes, localeCompare *)

Digits == <<"0", "1", "2", "3", "4", "5", "6", "7", "8", "9">>
LowerLetters ==
    <<"a", "b", "c", "d", "e", "f", "g", "h", "i", "j", "k", "l", "m",
      "n", "o", "p", "q", "r", "s", "t", "u", "v", "w", "x", "y", "z">>
UpperLetters ==
    <<"A", "B", "C", "D", "E", "F", "G", "H", "I", "J", "K", "L", "M",
      "N", "O", "P", "Q", "R", "S", "T", "U", "V", "W", "X", "Y", "Z">>

RECURSIVE DigitChars(_)
DigitChars(n) ==
    IF n < 10 THEN <<Digits[n + 1]>>
    ELSE DigitChars(n \div 10) \o <<Digits[(n % 10) + 1]>>

RECURSIVE JoinChars(_, _)
JoinChars(parts, sep) ==
    IF parts = <<>> THEN <<>>
    ELSE IF Len(parts) = 1 THEN parts[1]
    ELSE parts[1] \o sep \o JoinChars(Tail(parts), sep)

\* String(value), as the sequence of its characters
RECURSIVE StringOf(_)
StringOf(x) ==
    IF x.t = "string" THEN JoinChars([i \in 1..Len(x.v) |-> <<x.v[i]>>], <<".">>)
    ELSE IF x.t = "number"
        THEN IF x.v < 0 THEN <<"-">> \o DigitChars(0 - x.v)
             ELSE IF HiOf(x) = 0 THEN DigitChars(x.v)
             ELSE DigitChars(x.hi) \o
                  SubSeq(DigitChars(1000000000 + x.v), 2, 10)
    ELSE IF x.t = "boolean"
        THEN IF x.v THEN <<"t", "r", "u", "e">> ELSE <<"f", "a", "l", "s", "e">>
    ELSE IF x.t = "null" THEN <<"n", "u", "l", "l">>
    ELSE IF x.t = "undefined" THEN <<"u", "n", "d", "e", "f", "i", "n", "e", "d">>
    ELSE IF x.t = "object"
        THEN <<"[", "o", "b", "j", "e", "c", "t", " ", "O", "b", "j", "e", "c", "t", "]">>
    ELSE JoinChars([i \in 1..Len(x.v) |->
                       IF x.v[i].t \in {"null", "undefined"} THEN <<>>
                       ELSE StringOf(x.v[i])], <<",">>)

toLowerCase(str) ==
    [i \in 1..Len(str) |->
        IF \E k \in 1..26 : UpperLetters[k] = str[i]
        THEN LowerLetters[CHOOSE k \in 1..26 : UpperLetters[k] = str[i]]
        ELSE str[i]]

\* hay.includes(needle)
includes(hay, needle) ==
    \E i \in 0..(Len(hay) - Len(needle)) :
        \A j \in 1..Len(needle) : hay[i + j] = needle[j]

\* the collation order of the characters in use: space and punctuation,
\* then digits, then letters
CollationOrder == <<" ", "-", ",", ".", "(", "[", "]">> \o Digits \o LowerLetters
CollationRank(c) == CHOOSE i \in 1..Len(CollationOrder) : CollationOrder[i] = c

\* a.localeCompare(b) for lower-case strings: negative, zero or positive
RECURSIVE localeCompare(_, _)
localeCompare(a, b) ==
    IF a = <<>> THEN (IF b = <<>> THEN 0 ELSE -1)
    ELSE IF b = <<>> THEN 1
    ELSE IF Head(a) = Head(b) THEN localeCompare(Tail(a), Tail(b))
    ELSE IF CollationRank(Head(a)) < CollationRank(Head(b)) THEN -1 ELSE 1

---------------------------------------------------------------------------
(* TableRenderer: the text of a cell *)

\* What a cell shows: characters, or a text that depends on the locale and is
\* kept as what it is the text of: "number" (the digits of chars, grouped),
\* "datetime" and "date" (the instant ms, in milliseconds, as hi * 10^9 + lo),
\* "hex" and "binary" (chars after the prefix), "objectPreview" and
\* "arrayPreview" (the count in chars)
Limbs(hi, lo) == [hi |-> hi, lo |-> lo]
NoInstant == Limbs(0, 0)
Text(kind, chars, ms) == [kind |-> kind, chars |-> chars, ms |-> ms]
Chars(chars) == Text("chars", chars, NoInstant)

LimbsOf(x) == Limbs(HiOf(x), x.v)
LimbsLess(a, b) == a.hi < b.hi \/ (a.hi = b.hi /\ a.lo < b.lo)

\* formatNumber: num.toLocaleString()
formatNumber(num) == Text("number", StringOf(num), NoInstant)

\* renderObjectCell and renderArrayCell: the preview with the count
renderObjectCell(obj) == Text("objectPreview", DigitChars(Len(Keys(obj))), NoInstant)
renderArrayCell(arr) == Text("arrayPreview", DigitChars(Len(arr.v)), NoInstant)

\* the text renderCellContent gives a cell
cellContentText(cellData) ==
    IF cellData.t = "string" THEN Chars(StringOf(cellData))
    ELSE IF cellData.t = "number" THEN formatNumber(cellData)
    ELSE IF cellData.t = "boolean" THEN Chars(StringOf(cellData))
    ELSE IF cellData.t \in {"null", "undefined"} THEN Chars(<<"n", "u", "l", "l">>)
    ELSE IF cellData.t = "object" THEN renderObjectCell(cellData)
    ELSE renderArrayCell(cellData)

\* value * 1000 for a value below 10^10
TimesThousand(n) == Limbs(n.hi * 1000 + (n.lo \div 1000000), (n.lo % 1000000) * 1000)
\* !isNaN(date.getTime()): new Date(ms) is a date for |ms| <= 8.64 * 10^15
ValidDate(ms) == ms.hi < 8640000 \/ (ms.hi = 8640000 /\ ms.lo = 0)

padStart2(n) == IF n < 10 THEN <<"0">> \o DigitChars(n) ELSE DigitChars(n)

\* formatAsTime
formatAsTime(value) ==
    IF value.t # "number" \/ value.v < 0 THEN Chars(StringOf(value))
    ELSE LET n == LimbsOf(value)
             date == IF LimbsLess(Limbs(1, 0), n) /\ LimbsLess(n, Limbs(10, 0))
                         THEN TimesThousand(n)
                     ELSE n
         IN IF ~(LimbsLess(Limbs(1, 0), n) /\ LimbsLess(n, Limbs(10, 0)))
               /\ ~(LimbsLess(Limbs(1000, 0), n) /\ LimbsLess(n, Limbs(10000, 0)))
               /\ LimbsLess(Limbs(0, 0), n) /\ LimbsLess(n, Limbs(0, 86400))
            THEN Chars(padStart2(n.lo \div 3600) \o <<":">> \o
                       padStart2((n.lo % 3600) \div 60) \o <<":">> \o
                       padStart2(n.lo % 60))
            ELSE IF ValidDate(date) THEN Text("datetime", <<>>, date)
            ELSE Chars(StringOf(value))

\* value.toString(radix) of a number below 10^9: the digits, most significant first
RECURSIVE toRadix(_, _)
toRadix(n, radix) ==
    LET digit == <<"0", "1", "2", "3", "4", "5", "6", "7", "8", "9",
                   "A", "B", "C", "D", "E", "F">>[(n % radix) + 1]
    IN IF n < radix THEN <<digit>> ELSE toRadix(n \div radix, radix) \o <<digit>>
\* the digits of a number of 10^9 and more are left as the decimal ones
radixDigits(value, radix) ==
    IF HiOf(value) # 0 THEN StringOf(value)
    ELSE IF value.v < 0 THEN <<"-">> \o toRadix(0 - value.v, radix)
    ELSE toRadix(value.v, radix)

formatAsHex(value) ==
    IF value.t = "number" THEN Text("hex", radixDigits(value, 16), LimbsOf(value))
    ELSE Chars(StringOf(value))

formatAsBinary(value) ==
    IF value.t = "number" THEN Text("binary", radixDigits(value, 2), LimbsOf(value))
    ELSE Chars(StringOf(value))

\* new Date(str) is a date: of the explored strings the year alone is one
dateParses(value) == value.v = <<"2020">>

\* formatAsDate
formatAsDate(value) ==
    IF value.t = "number"
    THEN IF value.v >= 0 /\ ~ValidDate(LimbsOf(value))
         THEN Chars(<<"I", "n", "v", "a", "l", "i", "d", " ", "D", "a", "t", "e">>)
         ELSE Text("date", <<>>, LimbsOf(value))
    ELSE IF value.t = "string" /\ dateParses(value)
    THEN Text("date", StringOf(value), NoInstant)
    ELSE Chars(StringOf(value))

\* JSON.stringify of a value that is no object; of undefined it is undefined,
\* and a textContent set to undefined is empty
stringifyText(value) ==
    IF value.t = "undefined" THEN Chars(<<>>)
    ELSE IF value.t = "string" THEN Chars(<<"\"">> \o StringOf(value) \o <<"\"">>)
    ELSE Chars(StringOf(value))

DisplayTypes ==
    {"auto", "string", "number", "number-time", "number-hex", "number-binary",
     "boolean", "json", "date", "raw"}

\* the text renderCellWithType gives a cell
cellTypeText(cellData, displayType) ==
    IF displayType = "auto" THEN cellContentText(cellData)
    ELSE IF displayType \in {"string", "raw"} THEN Chars(StringOf(cellData))
    ELSE IF displayType = "number"
        THEN IF cellData.t = "number" THEN formatNumber(cellData)
             ELSE Chars(StringOf(cellData))
    ELSE IF displayType = "number-time" THEN formatAsTime(cellData)
    ELSE IF displayType = "number-hex" THEN formatAsHex(cellData)
    ELSE IF displayType = "number-binary" THEN formatAsBinary(cellData)
    ELSE IF displayType = "boolean" THEN Chars(StringOf(cellData))
    ELSE IF displayType = "json"
        THEN IF cellData.t \in {"object", "array"} THEN renderObjectCell(cellData)
             ELSE stringifyText(cellData)
    ELSE IF displayType = "date" THEN formatAsDate(cellData)
    ELSE cellContentText(cellData)

\* what renderCellContent puts into a cell: the data-type attribute, the text
\* and whether it is the literal null
renderCellContent(cellData) ==
    [data |-> cellData,
     dataType |-> getDataType(cellData),
     isNullText |-> getDataType(cellData) \in {"null", "undefined"},
     displayType |-> "auto",
     text |-> cellContentText(cellData)]

\* what renderCellWithType puts into a cell
renderCellWithType(cellData, displayType) ==
    [data |-> cellData,
     dataType |-> getDataType(cellData),
     isNullText |-> cellTypeText(cellData, displayType) = Chars(<<"n", "u", "l", "l">>),
     displayType |-> displayType,
     text |-> cellTypeText(cellData, displayType)]

\* the type set for a column: this.columnTypes[header] || 'auto'
NoTypes == [k \in {} |-> "auto"]
columnTypeOf(types, header) == IF header \in DOMAIN types THEN types[header] ELSE "auto"

\* the cell of a column rendered from a row; row is the record it came from
cellOf(row, header, types) ==
    LET cellData == getNestedValue(row, header)
        rendered == IF columnTypeOf(types, header) # "auto"
                    THEN renderCellWithType(cellData, columnTypeOf(types, header))
                    ELSE renderCellContent(cellData)
    IN [data |-> rendered.data, dataType |-> rendered.dataType,
        isNullText |-> rendered.isNullText, displayType |-> rendered.displayType,
        text |-> rendered.text, row |-> row]

\* the rows renderTableBody appends
renderTableBody(data, headers, types) ==
    [i \in 1..Len(data) |->
        [index |-> i - 1,
         row |-> data[i],
         cells |-> [j \in 1..Len(headers) |-> cellOf(data[i], headers[j], types)]]]

---------------------------------------------------------------------------
(* TableRenderer.sortTable *)

IsNullish(x) == x.t \in {"null", "undefined"}

sortCompare_nullsByDirection(a, b, column, direction) ==
    LET aVal == GetProp(a, column)
        bVal == GetProp(b, column)
        flip == IF direction = "asc" THEN 1 ELSE -1
    IN IF IsNullish(aVal) THEN flip
       ELSE IF IsNullish(bVal) THEN 0 - flip
       ELSE IF aVal.t = "number" /\ bVal.t = "number"
           THEN (IF direction = "asc" THEN aVal.v - bVal.v ELSE bVal.v - aVal.v)
       ELSE IF direction = "asc"
           THEN localeCompare(toLowerCase(StringOf(aVal)), toLowerCase(StringOf(bVal)))
       ELSE localeCompare(toLowerCase(StringOf(bVal)), toLowerCase(StringOf(aVal)))
\* the comparator of sortTable, for rows that are not null
sortCompare(a, b, column, direction) ==
    LET aVal == GetProp(a, column)
        bVal == GetProp(b, column)
    IN IF IsNullish(aVal) THEN 1
       ELSE IF IsNullish(bVal) THEN -1
       ELSE IF aVal.t = "number" /\ bVal.t = "number"
           THEN (IF direction = "asc" THEN aVal.v - bVal.v ELSE bVal.v - aVal.v)
       ELSE IF direction = "asc"
           THEN localeCompare(toLowerCase(StringOf(aVal)), toLowerCase(StringOf(bVal)))
       ELSE localeCompare(toLowerCase(StringOf(bVal)), toLowerCase(StringOf(aVal)))

Reverse(s) == [i \in 1..Len(s) |-> s[Len(s) + 1 - i]]

(* Array.prototype.sort of V8 for an array shorter than the minimal run: the *)
(* leading run is found (a strictly descending one is reversed) and the rest *)
(* is added by binary insertion.                                             *)
RECURSIVE v8RunLength(_, _, _, _, _)
v8RunLength(s, idx, isDescending, column, direction) ==
    IF idx > Len(s) THEN Len(s)
    ELSE LET order == sortCompare(s[idx], s[idx - 1], column, direction)
         IN IF (isDescending /\ order >= 0) \/ (~isDescending /\ order < 0)
            THEN idx - 1
            ELSE v8RunLength(s, idx + 1, isDescending, column, direction)

v8CountAndMakeRun(s, column, direction) ==
    LET isDescending == sortCompare(s[2], s[1], column, direction) < 0
        runLength == v8RunLength(s, 3, isDescending, column, direction)
    IN [runLength |-> runLength,
        work |-> IF isDescending
                 THEN Reverse(SubSeq(s, 1, runLength)) \o SubSeq(s, runLength + 1, Len(s))
                 ELSE s]

\* the insertion point of pivot in s[left+1 .. right]
RECURSIVE v8BinarySearch(_, _, _, _, _, _)
v8BinarySearch(s, pivot, left, right, column, direction) ==
    IF left >= right THEN left
    ELSE LET mid == left + ((right - left) \div 2)
         IN IF sortCompare(pivot, s[mid + 1], column, direction) < 0
            THEN v8BinarySearch(s, pivot, left, mid, column, direction)
            ELSE v8BinarySearch(s, pivot, mid + 1, right, column, direction)

RECURSIVE v8BinaryInsertionSort(_, _, _, _)
v8BinaryInsertionSort(s, start, column, direction) ==
    IF start >= Len(s) THEN s
    ELSE LET pivot == s[start + 1]
             left == v8BinarySearch(s, pivot, 0, start, column, direction)
         IN v8BinaryInsertionSort(
                SubSeq(s, 1, left) \o <<pivot>> \o SubSeq(s, left + 1, start)
                    \o SubSeq(s, start + 2, Len(s)),
                start + 1, column, direction)

v8Sort(s, column, direction) ==
    IF Len(s) < 2 THEN s
    ELSE LET run == v8CountAndMakeRun(s, column, direction)
         IN v8BinaryInsertionSort(run.work, run.runLength, column, direction)

(* Array.prototype.sort of SpiderMonkey for a short array: insertion sort,  *)
(* an item moves left past every element that compares greater than it.    *)
RECURSIVE smInsertAt(_, _, _, _, _)
smInsertAt(s, item, j, column, direction) ==
    IF j < 1 \/ sortCompare(s[j], item, column, direction) <= 0 THEN j
    ELSE smInsertAt(s, item, j - 1, column, direction)

RECURSIVE smInsertionSort(_, _, _, _)
smInsertionSort(s, i, column, direction) ==
    IF i > Len(s) THEN s
    ELSE LET item == s[i]
             j == smInsertAt(s, item, i - 1, column, direction)
         IN smInsertionSort(
                SubSeq(s, 1, j) \o <<item>> \o SubSeq(s, j + 1, i - 1)
                    \o SubSeq(s, i + 1, Len(s)),
                i + 1, column, direction)

\* [...data].sort(comparator) on the engine that runs the page
sortedData(data, column, direction) ==
    IF engine = "v8" THEN v8Sort(data, column, direction)
    ELSE smInsertionSort(data, 2, column, direction)

\* the comparator reads a[column] of a null row: a TypeError
sortThrows(data) == Len(data) >= 2 /\ \E i \in 1..Len(data) : data[i].t = "null"

---------------------------------------------------------------------------
(* TableRenderer and JSONTableViewer: the handlers *)

MaxNoResults == 2   \* 'no-results' messages counted

\* tableSettings
minColumnWidth == 100
maxColumnWidth == 300
\* the width limit of a numeric column
numericColumnWidth == 120

\* a header cell: the column, aria-sort and the inline widths (0: none set)
HeaderCell(column) ==
    [column |-> column, ariaSort |-> "none", width |-> 0, minWidth |-> 0, maxWidth |-> 0]
Op(name) ==
    [op |-> name, column |-> <<>>, direction |-> "", term |-> <<>>,
     type |-> "", threw |-> FALSE]

\* localStorage.getItem('jsonTableColumnTypes'): whether the item is there,
\* and the map it holds
NoStoredTypes == [present |-> FALSE, map |-> NoTypes]

\* loadColumnTypes: the stored map replaces this.columnTypes; a getItem that
\* throws (access denied) is caught and leaves it
loadColumnTypes ==
    IF storageMode # "denied" /\ storedTypes.present THEN storedTypes.map
    ELSE columnTypes

\* saveColumnTypes: a setItem that throws (quota exceeded, access denied) is
\* caught and leaves the stored item
saveColumnTypes_beforeChange(types) ==
    IF storageMode = "ok" THEN [present |-> TRUE, map |-> columnTypes] ELSE storedTypes
saveColumnTypes(types) ==
    IF storageMode = "ok" THEN [present |-> TRUE, map |-> types] ELSE storedTypes

\* renderTable(data): initialize() reloads the column types; empty data shows
\* the empty state and leaves the table as it is; otherwise header and body
\* are rebuilt, the table is shown and the width pass is scheduled
renderTable_keepsCurrentData(data) ==
    /\ columnTypes' = loadColumnTypes
    /\ IF data = Null \/ Len(data.v) = 0
       THEN /\ shown' = "empty"
            /\ UNCHANGED <<rCurrentData, tableHead, tableBody, widthTimer>>
       ELSE LET headers == extractHeaders(data.v)
            IN /\ rCurrentData' = (IF rCurrentData = Null THEN data ELSE rCurrentData)
               /\ tableHead' = [j \in 1..Len(headers) |-> HeaderCell(headers[j])]
               /\ tableBody' = renderTableBody(data.v, headers, columnTypes')
               /\ shown' = "table"
               /\ widthTimer' = TRUE
renderTable(data) ==
    /\ columnTypes' = loadColumnTypes
    /\ IF data = Null \/ Len(data.v) = 0
       THEN /\ shown' = "empty"
            /\ UNCHANGED <<rCurrentData, tableHead, tableBody, widthTimer>>
       ELSE LET headers == extractHeaders(data.v)
            IN /\ rCurrentData' = data
               /\ tableHead' = [j \in 1..Len(headers) |-> HeaderCell(headers[j])]
               /\ tableBody' = renderTableBody(data.v, headers, columnTypes')
               /\ shown' = "table"
               /\ widthTimer' = TRUE

\* updateSortHeaders
updateSortHeaders(column, direction) ==
    [j \in 1..Len(tableHead) |->
        [tableHead[j] EXCEPT !.ariaSort =
            IF tableHead[j].column = column
            THEN (IF direction = "asc" THEN "ascending" ELSE "descending")
            ELSE "none"]]

\* sortTable(column, direction, data): the body is rebuilt from the sorted copy
sortTable(column, direction, data) ==
    IF data = Null \/ Len(data.v) = 0
    THEN /\ lastOp' = [Op("sortTable") EXCEPT !.column = column, !.direction = direction]
         /\ UNCHANGED <<tableHead, tableBody>>
    ELSE IF sortThrows(data.v)
    THEN /\ lastOp' = [Op("sortTable") EXCEPT !.column = column,
                                               !.direction = direction, !.threw = TRUE]
         /\ UNCHANGED <<tableHead, tableBody>>
    ELSE LET sorted == sortedData(data.v, column, direction)
         IN /\ lastOp' = [Op("sortTable") EXCEPT !.column = column, !.direction = direction]
            /\ tableHead' = updateSortHeaders(column, direction)
            /\ tableBody' = renderTableBody(sorted, extractHeaders(sorted), columnTypes)

\* Object.values(row) of a row that is not null
RowValues(row) ==
    IF row.t = "object" THEN ObjectValues(row)
    ELSE IF HasLength(row) THEN [i \in 1..JSLength(row) |-> JSIndex(row, i - 1)]
    ELSE <<>>

rowMatches(row, searchTerm) ==
    \E i \in 1..Len(RowValues(row)) :
        includes(toLowerCase(StringOf(RowValues(row)[i])), toLowerCase(searchTerm))

\* str.trim(): the spaces at both ends are dropped
RECURSIVE trimStart(_)
trimStart(str) ==
    IF str # <<>> /\ Head(str) = " " THEN trimStart(Tail(str)) ELSE str
trim(str) == Reverse(trimStart(Reverse(trimStart(str))))

\* new RegExp(`(${searchTerm})`, 'gi') throws a SyntaxError: the explored
\* terms are one character long, and these characters alone leave the group
\* of the pattern unterminated, unmatched or with nothing to repeat
RegExpThrows(searchTerm) ==
    Len(searchTerm) = 1 /\ searchTerm[1] \in {"(", ")", "[", "*", "+", "?", "\\"}

\* highlightSearchTerm builds the RegExp for the first cell whose text (the
\* tooltip holds String(cellData)) includes the term
highlightThrows(searchTerm, body) ==
    /\ RegExpThrows(searchTerm)
    /\ \E i \in 1..Len(body) : \E j \in 1..Len(body[i].cells) :
          includes(toLowerCase(StringOf(body[i].cells[j].data)), toLowerCase(searchTerm))

\* searchTable(searchTerm, originalData)
searchTable(searchTerm, originalData) ==
    IF trim(searchTerm) = <<>>
    THEN /\ renderTable(originalData)
         /\ lastOp' = [Op("searchTable") EXCEPT !.term = searchTerm]
         /\ UNCHANGED noResults
    ELSE IF originalData = Null \/ \E i \in 1..Len(originalData.v) : originalData.v[i].t = "null"
    THEN \* null.filter or Object.values(null): a TypeError ends the call
         /\ lastOp' = [Op("searchTable") EXCEPT !.term = searchTerm, !.threw = TRUE]
         /\ UNCHANGED <<columnTypes, rCurrentData, shown, tableHead, tableBody,
                        widthTimer, noResults>>
    ELSE LET filteredData == SelectSeq(originalData.v, LAMBDA row : rowMatches(row, searchTerm))
         IN IF Len(filteredData) = 0
            THEN \* showNoResults hides the table and appends a message
                 /\ noResults < MaxNoResults
                 /\ lastOp' = [Op("searchTable") EXCEPT !.term = searchTerm]
                 /\ shown' = IF shown = "table" THEN "none" ELSE shown
                 /\ noResults' = noResults + 1
                 /\ UNCHANGED <<columnTypes, rCurrentData, tableHead, tableBody, widthTimer>>
            ELSE /\ renderTable(Arr(filteredData))
                 /\ lastOp' = [Op("searchTable") EXCEPT
                                  !.term = searchTerm,
                                  !.threw = highlightThrows(searchTerm, tableBody')]
                 /\ UNCHANGED noResults

\* updateColumnDisplay(columnName): the cell of the column is rendered again
\* in every body row, from the row of this.currentData at the same index
updateColumnDisplay(columnName, types) ==
    LET columnIndex == CHOOSE j \in 1..Len(tableHead) : tableHead[j].column = columnName
    IN IF ~(\E j \in 1..Len(tableHead) : tableHead[j].column = columnName)
          \/ rCurrentData = Null
       THEN tableBody
       ELSE [i \in 1..Len(tableBody) |->
               IF i <= Len(rCurrentData.v) /\ ~Falsy(rCurrentData.v[i])
                  /\ columnIndex <= Len(tableBody[i].cells)
               THEN [tableBody[i] EXCEPT !.cells[columnIndex] =
                        LET rendered ==
                                renderCellWithType(
                                    getNestedValue(rCurrentData.v[i], columnName),
                                    columnTypeOf(types, columnName))
                        IN [data |-> rendered.data, dataType |-> rendered.dataType,
                            isNullText |-> rendered.isNullText,
                            displayType |-> rendered.displayType,
                            text |-> rendered.text, row |-> rCurrentData.v[i]]]
               ELSE tableBody[i]]

\* changeColumnType(columnName, newType)
changeColumnType(columnName, newType) ==
    LET types == [k \in DOMAIN columnTypes \cup {columnName} |->
                     IF k = columnName THEN newType ELSE columnTypes[k]]
    IN /\ columnTypes' = types
       /\ tableBody' = updateColumnDisplay(columnName, types)
       /\ storedTypes' = saveColumnTypes(types)
       /\ lastOp' = [Op("changeColumnType") EXCEPT !.column = columnName, !.type = newType]

---------------------------------------------------------------------------
(* TableRenderer: the column widths *)

\* the text of the options of the type selector, which is part of the text
\* of a header cell: 15 Hangul characters and 13 ASCII ones
OptionsHangul == 15
OptionsAscii == 13

Max2(a, b) == IF a >= b THEN a ELSE b
Min2(a, b) == IF a <= b THEN a ELSE b

\* calculateTextWidth of ASCII characters
calculateTextWidth(chars) == IF chars = <<>> THEN 0 ELSE Max2(8 * Len(chars), 20)

\* calculateNumericTextWidth
RECURSIVE numericCharsWidth(_)
numericCharsWidth(chars) ==
    IF chars = <<>> THEN 0
    ELSE (IF Head(chars) \in {".", ",", ":"} THEN 4 ELSE 6) + numericCharsWidth(Tail(chars))
calculateNumericTextWidth(chars) ==
    IF chars = <<>> THEN 0 ELSE Max2(numericCharsWidth(chars), 15)

\* the characters getCellDisplayText reads from a cell
displayChars(text) ==
    IF text.kind = "objectPreview"
        THEN <<"{">> \o text.chars \o <<" ", "p", "r", "o", "p", "e", "r", "t", "i", "e", "s", "}">>
    ELSE IF text.kind = "arrayPreview"
        THEN <<"[">> \o text.chars \o <<" ", "i", "t", "e", "m", "s", "]">>
    ELSE IF text.kind = "hex" THEN <<"0", "x">> \o text.chars
    ELSE IF text.kind = "binary" THEN <<"0", "b">> \o text.chars
    ELSE IF text.kind \in {"datetime", "date"}
        THEN \* a date in the form of the locale, such as 2020. 01. 01.
             <<"2", "0", "2", "0", ".", " ", "0", "1", ".", " ", "0", "1", ".">>
    ELSE text.chars

\* isNumericValue of the explored texts: digits, with a sign or as HH:MM:SS
isNumericValue(chars) ==
    /\ chars # <<>>
    /\ \/ \A i \in 1..Len(chars) : \E d \in 1..10 : Digits[d] = chars[i]
       \/ /\ Len(chars) > 1 /\ chars[1] = "-"
          /\ \A i \in 2..Len(chars) : \E d \in 1..10 : Digits[d] = chars[i]
       \/ /\ Len(chars) = 8 /\ chars[3] = ":" /\ chars[6] = ":"
          /\ \A i \in {1, 2, 4, 5, 7, 8} : \E d \in 1..10 : Digits[d] = chars[i]
       \/ chars = <<"2020">>

\* the keywords of isNumericColumn that a segment of an explored column is
NumericKeywords == {"value", "id", "count", "age", "time"}

\* isNumericColumn(header, cells)
isNumericColumn(column, cells) ==
    \/ \E i \in 1..Len(column) : column[i] \in NumericKeywords
    \/ LET sampleSize == Min2(Len(cells), 5)
           numericCount ==
               Cardinality({i \in 1..sampleSize : isNumericValue(displayChars(cells[i].text))})
       IN sampleSize > 0 /\ 10 * numericCount >= 7 * sampleSize

\* isLongContent
isLongContent(chars) ==
    Len(chars) > 50 \/ \E i \in 1..Len(chars) : chars[i] \in {"{", "["}

\* the width of a cell in calculateOptimalColumnWidth
cellWidth(cell, isNumeric) ==
    LET chars == displayChars(cell.text)
        width == IF isNumeric THEN calculateNumericTextWidth(chars) + 12
                 ELSE calculateTextWidth(chars) + 16
    IN IF isLongContent(chars)
       THEN Min2(width, IF isNumeric THEN numericColumnWidth ELSE 300)
       ELSE width

\* calculateOptimalColumnWidth(header, cells): the text of the header is the
\* column name and the options of its type selector
calculateOptimalColumnWidth(column, cells) ==
    LET headerWidth ==
            14 * OptionsHangul + 8 * OptionsAscii
                + 8 * Len(JoinChars([i \in 1..Len(column) |-> <<column[i]>>], <<".">>)) + 40
        isNumeric == isNumericColumn(column, cells)
        sampleSize == Min2(Len(cells), 10)
        maxCellWidth ==
            IF sampleSize = 0 THEN 0
            ELSE SeqMax([i \in 1..sampleSize |-> cellWidth(cells[i], isNumeric)])
        limit == IF isNumeric THEN numericColumnWidth ELSE maxColumnWidth
    IN Max2(minColumnWidth, Min2(limit, Max2(headerWidth, maxCellWidth)))

\* the cells of column j of the body
columnCells(j) ==
    [i \in 1..Len(tableBody) |-> tableBody[i].cells[j]]

Sum(s) == LET RECURSIVE sum(_)
              sum(i) == IF i = 0 THEN 0 ELSE s[i] + sum(i - 1)
          IN sum(Len(s))

\* adjustColumnWidths(table, containerWidth): the widths it applies
adjustedWidths(head) ==
    LET columnWidths ==
            [j \in 1..Len(head) |-> calculateOptimalColumnWidth(head[j].column, columnCells(j))]
        totalWidth == Sum(columnWidths)
        availableWidth == containerWidth - 60
    IN IF totalWidth <= availableWidth THEN columnWidths
       ELSE [j \in 1..Len(head) |->
                Max2(minColumnWidth, (columnWidths[j] * availableWidth) \div totalWidth)]

\* adjustTableToWindow: width, min-width and max-width of every column
adjustTableToWindow(head) ==
    [j \in 1..Len(head) |->
        [head[j] EXCEPT !.width = adjustedWidths(head)[j],
                        !.minWidth = adjustedWidths(head)[j],
                        !.maxWidth = adjustedWidths(head)[j]]]

\* optimizeColumnWidths: width and min-width of every column
optimizeColumnWidths(head) ==
    [j \in 1..Len(head) |->
        [head[j] EXCEPT
            !.width = calculateOptimalColumnWidth(head[j].column, columnCells(j)),
            !.minWidth = calculateOptimalColumnWidth(head[j].column, columnCells(j))]]

---------------------------------------------------------------------------
(* The events *)

\* JSONParser.parseJSON called on a text
ParserCall ==
    /\ lastOp.op = "init"
    /\ result' = parseJSON(jsonInput)
    /\ lastOp' = Op("parseJSON")
    /\ UNCHANGED <<theme, nested, reads,
                   engine, storageMode, jsonInput, currentData, rCurrentData,
                   columnTypes, storedTypes, shown, tableHead, tableBody, noResults,
                   containerWidth, searchTimeout, resizeTimeout, widthTimer,
                   autoSaveTimer, savedState>>

NoTimeout == [pending |-> FALSE, term |-> <<>>]
NoAutoSave == [pending |-> FALSE, state |-> BlankText]
NoSavedState == [present |-> FALSE, state |-> BlankText]

\* StateManager.saveState(state): what the storage holds afterwards; a
\* setItem that throws is caught
saveState(state) ==
    IF storageMode = "ok" THEN [present |-> TRUE, state |-> state] ELSE savedState

\* JSONTableViewer.parseJSON with the text box holding text: a blank text is
\* refused, a parsed one is rendered and the state is saved at once
\* (saveCurrentState), a text that does not parse shows the error
viewerParseJSON(text) ==
    IF text.kind = "blank"
    THEN UNCHANGED <<result, currentData, rCurrentData, columnTypes, shown,
                     tableHead, tableBody, widthTimer, savedState>>
    ELSE /\ result' = parseJSON(text)
         /\ IF result'.success
            THEN /\ currentData' = result'.data
                 /\ renderTable(result'.data)
                 /\ savedState' = saveState(text)
            ELSE /\ shown' = "error"
                 /\ UNCHANGED <<currentData, rCurrentData, columnTypes, tableHead,
                                tableBody, widthTimer, savedState>>

\* the parse button
ParseClick ==
    /\ lastOp' = Op("parseClick")
    /\ viewerParseJSON(jsonInput)
    /\ UNCHANGED <<theme, nested, reads,
                   engine, storageMode, jsonInput, storedTypes, noResults,
                   containerWidth, searchTimeout, resizeTimeout, autoSaveTimer>>

\* the user edits the text box: the input event arms the auto-save timer
\* (1000ms) with the state read now, cancelling the pending one
InputText(text) ==
    /\ jsonInput' = text
    /\ autoSaveTimer' = [pending |-> TRUE, state |-> text]
    /\ lastOp' = Op("input")
    /\ UNCHANGED <<theme, nested, reads,
                   engine, storageMode, result, currentData, rCurrentData,
                   columnTypes, storedTypes, shown, tableHead, tableBody, noResults,
                   containerWidth, searchTimeout, resizeTimeout, widthTimer, savedState>>

\* the auto-save timer fires: saveState(state); a setItem that throws is caught
AutoSaveFire ==
    /\ autoSaveTimer.pending
    /\ autoSaveTimer' = NoAutoSave
    /\ savedState' = saveState(autoSaveTimer.state)
    /\ lastOp' = Op("saveState")
    /\ UNCHANGED <<theme, nested, reads,
                   engine, storageMode, jsonInput, result, currentData, rCurrentData,
                   columnTypes, storedTypes, shown, tableHead, tableBody, noResults,
                   containerWidth, searchTimeout, resizeTimeout, widthTimer>>

\* handleSearch: an input event of the search box; without a dataset it
\* returns at once, otherwise it cancels the pending timer and arms a new one
\* (300ms)
SearchInput(term) ==
    /\ searchTimeout' = IF Falsy(currentData) THEN searchTimeout
                        ELSE [pending |-> TRUE, term |-> term]
    /\ lastOp' = [Op("handleSearch") EXCEPT !.term = term]
    /\ UNCHANGED <<theme, nested, reads,
                   engine, storageMode, jsonInput, result, currentData, rCurrentData,
                   columnTypes, storedTypes, shown, tableHead, tableBody, noResults,
                   containerWidth, resizeTimeout, widthTimer, autoSaveTimer, savedState>>

\* the search timer fires: searchTable(term, this.currentData)
SearchFire ==
    /\ searchTimeout.pending
    /\ searchTimeout' = NoTimeout
    /\ searchTable(searchTimeout.term, currentData)
    /\ UNCHANGED <<theme, nested, reads,
                   engine, storageMode, jsonInput, result, currentData, storedTypes,
                   containerWidth, resizeTimeout, autoSaveTimer, savedState>>

\* clearSearch: the search box is emptied and the current data rendered
ClearSearch ==
    /\ lastOp' = Op("clearSearch")
    /\ IF currentData # Null
       THEN renderTable(currentData)
       ELSE UNCHANGED <<rCurrentData, columnTypes, shown, tableHead, tableBody, widthTimer>>
    /\ UNCHANGED <<theme, nested, reads,
                   engine, storageMode, jsonInput, result, currentData, storedTypes,
                   noResults, containerWidth, searchTimeout, resizeTimeout,
                   autoSaveTimer, savedState>>

\* handleSortClick on a header cell of the displayed table
SortClick(j) ==
    /\ shown = "table"
    /\ j \in 1..Len(tableHead)
    /\ currentData # Null /\ Len(currentData.v) > 0
    /\ LET currentDirection == tableHead[j].ariaSort
           newDirection == IF currentDirection = "asc" THEN "desc" ELSE "asc"
       IN sortTable(tableHead[j].column, newDirection, currentData)
    /\ UNCHANGED <<theme, nested, reads,
                   engine, storageMode, jsonInput, result, currentData, rCurrentData,
                   columnTypes, storedTypes, shown, noResults, containerWidth,
                   searchTimeout, resizeTimeout, widthTimer, autoSaveTimer, savedState>>

\* TableRenderer.sortTable called with a column and a direction
SortCall(column, direction) ==
    /\ lastOp.op = "parseClick"
    /\ sortTable(column, direction, currentData)
    /\ UNCHANGED <<theme, nested, reads,
                   engine, storageMode, jsonInput, result, currentData, rCurrentData,
                   columnTypes, storedTypes, shown, noResults, containerWidth,
                   searchTimeout, resizeTimeout, widthTimer, autoSaveTimer, savedState>>

\* TableRenderer.searchTable called with a term on the parsed dataset
SearchCall(term) ==
    /\ lastOp.op = "parseClick"
    /\ searchTable(term, currentData)
    /\ UNCHANGED <<theme, nested, reads,
                   engine, storageMode, jsonInput, result, currentData, storedTypes,
                   containerWidth, searchTimeout, resizeTimeout, autoSaveTimer, savedState>>

\* the type selector of a header cell of the displayed table is changed
ChangeColumnType(j, newType) ==
    /\ shown = "table"
    /\ j \in 1..Len(tableHead)
    /\ changeColumnType(tableHead[j].column, newType)
    /\ UNCHANGED <<theme, nested, reads,
                   engine, storageMode, jsonInput, result, currentData, rCurrentData,
                   shown, tableHead, noResults, containerWidth, searchTimeout,
                   resizeTimeout, widthTimer, autoSaveTimer, savedState>>

\* clearData: the clear button; clearState removes the saved state
ClearData ==
    /\ jsonInput' = BlankText
    /\ currentData' = Null
    /\ tableHead' = <<>>
    /\ tableBody' = <<>>
    /\ shown' = "empty"
    /\ savedState' = IF storageMode = "denied" THEN savedState ELSE NoSavedState
    /\ lastOp' = Op("clearData")
    /\ UNCHANGED <<theme, nested, reads,
                   engine, storageMode, result, rCurrentData, columnTypes, storedTypes,
                   noResults, containerWidth, searchTimeout, resizeTimeout, widthTimer,
                   autoSaveTimer>>

\* a resize event: the window gets a width, the listener cancels the pending
\* timer and arms a new one (150ms)
Resize(width) ==
    /\ containerWidth' = width
    /\ resizeTimeout' = TRUE
    /\ lastOp' = Op("resize")
    /\ UNCHANGED <<theme, nested, reads,
                   engine, storageMode, jsonInput, result, currentData, rCurrentData,
                   columnTypes, storedTypes, shown, tableHead, tableBody, noResults,
                   searchTimeout, widthTimer, autoSaveTimer, savedState>>

\* the resize timer fires: adjustTableToWindow
ResizeFire ==
    /\ resizeTimeout
    /\ resizeTimeout' = FALSE
    /\ tableHead' = adjustTableToWindow(tableHead)
    /\ lastOp' = Op("adjustTableToWindow")
    /\ UNCHANGED <<theme, nested, reads,
                   engine, storageMode, jsonInput, result, currentData, rCurrentData,
                   columnTypes, storedTypes, shown, tableBody, noResults, containerWidth,
                   searchTimeout, widthTimer, autoSaveTimer, savedState>>

\* the timer of renderTable fires (100ms): adjustTableToWindow, then
\* optimizeColumnWidths
WidthPassFire ==
    /\ widthTimer
    /\ widthTimer' = FALSE
    /\ tableHead' = optimizeColumnWidths(adjustTableToWindow(tableHead))
    /\ lastOp' = Op("widthPass")
    /\ UNCHANGED <<theme, nested, reads,
                   engine, storageMode, jsonInput, result, currentData, rCurrentData,
                   columnTypes, storedTypes, shown, tableBody, noResults, containerWidth,
                   searchTimeout, resizeTimeout, autoSaveTimer, savedState>>

---------------------------------------------------------------------------
(* TableRenderer: the expansion of a nested value *)

CutoffDepth == 5

\* what a cell shows of a nested value: an object preview or an array preview
\* with its expand toggle and the depth the toggle was made with, raw JSON
\* text, or the text of a primitive; level counts the tables the chain of
\* expansions has opened above it
Node(kind, value, depth, level) ==
    [kind |-> kind, value |-> value, depth |-> depth, level |-> level]
NoNested == Node("none", Null, 0, 0)

\* renderCellContent on a cell of the table: renderObjectCell with depth 0,
\* renderArrayCell, or the text
cellNode(cellData) ==
    IF getDataType(cellData) = "object" THEN Node("objectCell", cellData, 0, 0)
    ELSE IF getDataType(cellData) = "array" THEN Node("arrayCell", cellData, 0, 0)
    ELSE Node("leaf", cellData, 0, 0)

\* renderValueInNestedTable(cell, value, depth), in a table at the given level
renderValueInNestedTable(value, depth, level) ==
    IF getDataType(value) = "object"
    THEN IF depth < CutoffDepth THEN Node("objectCell", value, depth, level)
         ELSE Node("raw", value, depth, level)
    ELSE IF getDataType(value) = "array"
    THEN IF depth < CutoffDepth THEN Node("arrayInNested", value, depth, level)
         ELSE Node("raw", value, depth, level)
    ELSE Node("leaf", value, depth, level)

\* the fields of the viewer and of its renderer
viewerFields ==
    <<engine, storageMode, jsonInput, result, currentData, rCurrentData, columnTypes,
      storedTypes, shown, tableHead, tableBody, noResults, containerWidth,
      searchTimeout, resizeTimeout, widthTimer, autoSaveTimer, savedState>>

\* a cell holding the value is rendered
RenderCell(value) ==
    /\ nested.kind = "none"
    /\ nested' = cellNode(value)
    /\ UNCHANGED <<viewerFields, theme, reads, lastOp>>

\* toggleObjectTable on a collapsed object: createNestedTable(obj, depth + 1)
\* renders every value with depth + 1; the chain goes on in the k-th value
ToggleObjectTable(k) ==
    /\ nested.kind = "objectCell"
    /\ k \in 1..Len(ObjectValues(nested.value))
    /\ nested' = renderValueInNestedTable(ObjectValues(nested.value)[k],
                                          nested.depth + 1, nested.level + 1)
    /\ UNCHANGED <<viewerFields, theme, reads, lastOp>>

\* toggleArrayInNestedTable on a collapsed array: the array table renders
\* every item with the depth of the array; the chain goes on in the i-th item
ToggleArrayInNestedTable(i) ==
    /\ nested.kind = "arrayInNested"
    /\ i \in 1..Len(nested.value.v)
    /\ nested' = renderValueInNestedTable(nested.value.v[i], nested.depth,
                                          nested.level + 1)
    /\ UNCHANGED <<viewerFields, theme, reads, lastOp>>

\* toggleArrayExpansion on a collapsed array cell of the table: the JSON text
ToggleArrayExpansion ==
    /\ nested.kind = "arrayCell"
    /\ nested' = Node("raw", nested.value, nested.depth, nested.level)
    /\ UNCHANGED <<viewerFields, theme, reads, lastOp>>

---------------------------------------------------------------------------
(* JSONTableViewer.processFile: the file reads *)

MaxReads == 2     \* file reads in flight

\* the reads in flight in the order they were requested, the content of the
\* file requested last, and what became of that read
Reads(pending, last, lastState) ==
    [pending |-> pending, last |-> last, lastState |-> lastState]
NoReads == Reads(<<>>, BlankText, "none")

DropAt(seq, i) == SubSeq(seq, 1, i - 1) \o SubSeq(seq, i + 1, Len(seq))

\* processFile(file) for a file of a valid type and size: readAsText starts
ProcessFile(text) ==
    /\ Len(reads.pending) < MaxReads
    /\ reads' = Reads(Append(reads.pending, text), text, "pending")
    /\ lastOp' = Op("processFile")
    /\ UNCHANGED <<viewerFields, theme, nested>>

\* reader.onload of the i-th read in flight: the content goes into the text
\* box and is parsed
ReaderLoad(i) ==
    /\ i \in 1..Len(reads.pending)
    /\ jsonInput' = reads.pending[i]
    /\ viewerParseJSON(reads.pending[i])
    /\ reads' = Reads(DropAt(reads.pending, i), reads.last,
                      IF i = Len(reads.pending) /\ reads.lastState = "pending"
                      THEN "loaded" ELSE reads.lastState)
    /\ lastOp' = Op("fileLoaded")
    /\ UNCHANGED <<theme, nested, engine, storageMode, storedTypes, noResults,
                   containerWidth, searchTimeout, resizeTimeout, autoSaveTimer>>

\* reader.onerror of the i-th read in flight: a message, nothing else
ReaderError(i) ==
    /\ i \in 1..Len(reads.pending)
    /\ reads' = Reads(DropAt(reads.pending, i), reads.last,
                      IF i = Len(reads.pending) /\ reads.lastState = "pending"
                      THEN "failed" ELSE reads.lastState)
    /\ lastOp' = Op("fileError")
    /\ UNCHANGED <<viewerFields, theme, nested>>

---------------------------------------------------------------------------
(* ThemeManager *)

Themes == {"light", "dark"}
Opposite(t) == IF t = "light" THEN "dark" ELSE "light"

\* the localStorage item 'jsonTableThemeSettings'
ThemeSettings(currentTheme, autoTheme, systemTheme) ==
    [present |-> TRUE, currentTheme |-> currentTheme, autoTheme |-> autoTheme,
     systemTheme |-> systemTheme]
NoThemeSettings ==
    [present |-> FALSE, currentTheme |-> "light", autoTheme |-> FALSE,
     systemTheme |-> "light"]

\* saveThemeSettings: what the storage holds afterwards
saveThemeSettings(t) ==
    IF storageMode = "ok" THEN ThemeSettings(t.currentTheme, t.autoTheme, t.systemTheme)
    ELSE t.stored

\* the constructor: detectSystemTheme, loadThemeSettings, applyTheme(currentTheme)
ThemeManager(detected, stored) ==
    IF storageMode # "denied" /\ stored.present
    THEN [currentTheme |-> stored.currentTheme, systemTheme |-> stored.systemTheme,
          autoTheme |-> stored.autoTheme, applied |-> stored.currentTheme,
          stored |-> stored]
    ELSE [currentTheme |-> detected, systemTheme |-> detected, autoTheme |-> TRUE,
          applied |-> detected, stored |-> stored]

\* setTheme(newTheme)
setTheme(newTheme) ==
    IF newTheme \notin Themes THEN theme
    ELSE LET t == [theme EXCEPT !.currentTheme = newTheme, !.autoTheme = FALSE,
                                !.applied = newTheme]
         IN [t EXCEPT !.stored = saveThemeSettings(t)]

SetTheme(newTheme) ==
    /\ theme' = setTheme(newTheme)
    /\ lastOp' = [Op("setTheme") EXCEPT !.type = newTheme]
    /\ UNCHANGED <<viewerFields, nested, reads>>

\* toggleTheme
ToggleTheme ==
    /\ theme' = setTheme(Opposite(theme.currentTheme))
    /\ lastOp' = Op("toggleTheme")
    /\ UNCHANGED <<viewerFields, nested, reads>>

\* setAutoTheme(enabled)
SetAutoTheme(enabled) ==
    /\ LET t == [theme EXCEPT !.autoTheme = enabled,
                              !.applied = IF enabled THEN theme.systemTheme
                                          ELSE theme.applied]
       IN theme' = [t EXCEPT !.stored = saveThemeSettings(t)]
    /\ lastOp' = Op("setAutoTheme")
    /\ UNCHANGED <<viewerFields, nested, reads>>

\* handleSystemThemeChange(event): the system switches to the other theme
SystemThemeChange(matches) ==
    /\ LET systemTheme == IF matches THEN "dark" ELSE "light"
       IN theme' = [theme EXCEPT !.systemTheme = systemTheme,
                                 !.applied = IF theme.autoTheme THEN systemTheme
                                             ELSE theme.applied]
    /\ lastOp' = Op("systemThemeChange")
    /\ UNCHANGED <<viewerFields, nested, reads>>

\* resetThemeSettings
ResetThemeSettings ==
    /\ LET t == [theme EXCEPT !.currentTheme = theme.systemTheme, !.autoTheme = TRUE,
                              !.applied = theme.systemTheme]
       IN theme' = [t EXCEPT !.stored = saveThemeSettings(t)]
    /\ lastOp' = Op("resetThemeSettings")
    /\ UNCHANGED <<viewerFields, nested, reads>>

---------------------------------------------------------------------------
(* The page as loaded *)

\* TableRenderer.initialize() has read the stored column types
InitViewerFields ==
    /\ result = NoResult
    /\ currentData = Null
    /\ rCurrentData = Null
    /\ columnTypes = IF storageMode # "denied" /\ storedTypes.present
                     THEN storedTypes.map ELSE NoTypes
    /\ shown = "empty"
    /\ tableHead = <<>>
    /\ tableBody = <<>>
    /\ noResults = 0
    /\ searchTimeout = NoTimeout
    /\ resizeTimeout = FALSE
    /\ widthTimer = FALSE
    /\ autoSaveTimer = NoAutoSave
    /\ savedState = NoSavedState
    /\ lastOp = Op("init")
    /\ nested = NoNested
    /\ reads = NoReads

\* the page on a system with the light theme and no stored theme settings
InitViewer ==
    /\ InitViewerFields
    /\ theme = ThemeManager("light", NoThemeSettings)

\* a page whose storage works and holds no column types, in a wide window
InitPlain ==
    /\ storageMode = "ok"
    /\ storedTypes = NoStoredTypes
    /\ containerWidth = 1200
    /\ InitViewer

(* Inference alone: any explored text is in the text box, and it is parsed *)
InitInfer == InitPlain /\ engine = "v8" /\ jsonInput \in Texts
NextInfer == ParserCall \/ (lastOp.op # "parseClick" /\ ParseClick)
SpecInfer == InitInfer /\ [][NextInfer]_vars

(* The viewer: texts typed into the text box, parsed, searched, sorted, in *)
(* a window whose width stays; the two sort engines are told apart in      *)
(* SpecSort, the timers of the widths and of the auto-save fire in         *)
(* SpecWidth and SpecTimers                                                *)
DataA == Arr(<< Obj(<< <<Key("a"), Num(2)>>, <<Key("b"), Str(Key("x"))>> >>),
                Obj(<< <<Key("a"), Null>>, <<Key("b"), Str(Key("y"))>> >>),
                Obj(<< <<Key("a"), Num(1)>> >>) >>)
DataB == Obj(<< <<Key("a"), Obj(<< <<Key("b"), Num(1)>> >>)>> >>)
DataC == Arr(<< Obj(<< <<Key("b"), Num(1)>> >>), Null >>)
ViewerTexts ==
    {BlankText, BadText({"Unexpected token"}),
     JsonText(DataA), JsonText(DataB), JsonText(DataC)}
SearchTerms == {<<>>, <<"x">>, <<"1">>, <<"z">>}

Init == InitPlain /\ engine = "v8" /\ jsonInput = BlankText
Next ==
    \/ \E text \in ViewerTexts : InputText(text)
    \/ ParseClick
    \/ \E term \in SearchTerms : SearchInput(term)
    \/ SearchFire
    \/ ClearSearch
    \/ \E j \in 1..Len(tableHead) : SortClick(j)
    \/ ClearData
    \/ Resize(containerWidth)
    \/ ResizeFire
Spec == Init /\ [][Next]_vars

(* Sorting alone: a parsed and rendered array of objects is sorted by one  *)
(* call of sortTable                                                       *)
MaxSortRows == 3    \* rows of a sorted dataset
SortValues == {Null, Num(1), Num(2), Num(10), Str(Key("x")), Str(Key("X")), Bool(TRUE)}
\* row i holds its position under b, and a value under a or no a at all
SortRows(i) ==
    {Obj(<< <<Key("a"), val>>, <<Key("b"), Num(i)>> >>) : val \in SortValues}
    \cup {Obj(<< <<Key("b"), Num(i)>> >>)}
SortDatasets ==
    UNION {{s \in [1..n -> UNION {SortRows(i) : i \in 1..n}] :
               \A i \in 1..n : s[i] \in SortRows(i)} : n \in 1..MaxSortRows}
SortColumns == {Key("a"), Key("b"), Key("c")}

InitSort ==
    /\ InitPlain
    /\ engine \in {"v8", "sm"}
    /\ jsonInput \in {JsonText(Arr(s)) : s \in SortDatasets}
NextSort ==
    \/ (lastOp.op = "init" /\ ParseClick)
    \/ \E column \in SortColumns, direction \in {"asc", "desc"} : SortCall(column, direction)
SpecSort == InitSort /\ [][NextSort]_vars

(* Searching alone: a parsed and rendered dataset is searched by one call   *)
(* of searchTable                                                          *)
SearchValues == {Null, Num(1), Str(Key("x")), Str(Key("X")), Str(Key("("))}
SearchRows ==
    ObjectsOver(<<Key("a")>>, SearchValues)
    \cup ObjectsOver(<<Key("a"), Key("b")>>, SearchValues)
    \cup {Null}
SearchDatasets ==
    {d \in ArraysOf(SearchRows, MaxRows) : Len(d.v) > 0 => d.v[1] # Null}
CallTerms == {<<>>, <<" ">>, <<"x">>, <<"X">>, <<"1">>, <<"z">>, <<"(">>, <<"n">>}

InitSearch ==
    /\ InitPlain
    /\ engine = "v8"
    /\ jsonInput \in {JsonText(d) : d \in SearchDatasets}
NextSearch ==
    \/ (lastOp.op = "init" /\ ParseClick)
    \/ \E term \in CallTerms : SearchCall(term)
SpecSearch == InitSearch /\ [][NextSearch]_vars

(* The widths alone: a dataset is parsed and rendered in a window of some  *)
(* width, the width pass of the render runs, the window is resized         *)
WidthValues == {Num(1), Str(Key("x"))}
WidthDatasets ==
    ArraysOf(ObjectsOver(<<Key("a"), Key("b")>>, WidthValues), MaxRows)
    \cup ObjectsOver(<<Key("a")>>, WidthValues)
ContainerWidths == {400, 800, 1200}

InitWidth ==
    /\ storageMode = "ok"
    /\ storedTypes = NoStoredTypes
    /\ containerWidth \in ContainerWidths
    /\ InitViewer
    /\ engine = "v8"
    /\ jsonInput \in {JsonText(d) : d \in WidthDatasets}
NextWidth ==
    \/ (lastOp.op = "init" /\ ParseClick)
    \/ WidthPassFire
    \/ \E width \in ContainerWidths : Resize(width)
    \/ ResizeFire
SpecWidth == InitWidth /\ [][NextWidth]_vars

(* The column types: datasets that share the column a are typed in,       *)
(* parsed, sorted, searched and cleared while the type of a column is      *)
(* changed; the storage works, and may hold the types of an earlier        *)
(* session                                                                 *)
TypesA == Arr(<< Obj(<< <<Key("a"), Num(2)>>, <<Key("b"), Str(Key("x"))>> >>),
                 Obj(<< <<Key("a"), Num(1)>> >>) >>)
TypesB == Arr(<< Obj(<< <<Key("a"), Str(Key("x"))>> >>) >>)
TypeTexts == {JsonText(TypesA), JsonText(TypesB)}
TypeChoices == {"auto", "string", "number-hex"}
TypeTerms == {<<>>, <<"x">>}
EarlierTypes == [present |-> TRUE, map |-> [k \in {Key("a")} |-> "string"]]

NextTypes ==
    \/ \E text \in TypeTexts : InputText(text)
    \/ ParseClick
    \/ \E j \in 1..Len(tableHead), newType \in TypeChoices : ChangeColumnType(j, newType)
    \/ \E j \in 1..Len(tableHead) : SortClick(j)
    \/ \E term \in TypeTerms : SearchInput(term)
    \/ SearchFire
    \/ ClearSearch
    \/ ClearData
InitTypes ==
    /\ storageMode = "ok"
    /\ storedTypes \in {NoStoredTypes, EarlierTypes}
    /\ containerWidth = 1200
    /\ InitViewer
    /\ engine = "v8"
    /\ jsonInput = BlankText
SpecTypes == InitTypes /\ [][NextTypes]_vars

(* The column types while the storage fails: setItem throws (quota), or   *)
(* every access does (denied)                                              *)
InitStorage ==
    /\ storageMode \in {"quota", "denied"}
    /\ storedTypes \in {NoStoredTypes, EarlierTypes}
    /\ containerWidth = 1200
    /\ InitViewer
    /\ engine = "v8"
    /\ jsonInput = BlankText
SpecStorage == InitStorage /\ [][NextTypes]_vars

(* The calls on any inferred table: the rows after the first may be null, *)
(* a primitive or an array, and a cell may hold a character that is        *)
(* special in a regular expression; the table is sorted or searched once   *)
CallRows ==
    {Obj(<< <<Key("a"), Num(1)>> >>), Obj(<< <<Key("a"), Str(Key("("))>> >>),
     Null, Num(1), Arr(<<>>)}
CallDatasets ==
    {d \in ArraysOf(CallRows, MaxSortRows) : Len(d.v) > 0 /\ d.v[1].t = "object"}

InitCalls ==
    /\ InitPlain
    /\ engine \in {"v8", "sm"}
    /\ jsonInput \in {JsonText(d) : d \in CallDatasets}
NextCalls ==
    \/ (lastOp.op = "init" /\ ParseClick)
    \/ \E direction \in {"asc", "desc"} : SortCall(Key("a"), direction)
    \/ \E term \in {<<"1">>, <<"(">>, <<"z">>} : SearchCall(term)
SpecCalls == InitCalls /\ [][NextCalls]_vars

(* The nested values: a cell holding a chain of objects and arrays is      *)
(* rendered and expanded step by step                                      *)
MaxChain == 7     \* values nested in the value of a cell
RECURSIVE Chain(_)
Chain(shape) ==
    IF shape = <<>> THEN Num(1)
    ELSE IF Head(shape) = "object"
        THEN Obj(<< <<Key("a"), Chain(Tail(shape))>> >>)
    ELSE Arr(<< Chain(Tail(shape)) >>)
NestedCells == {Chain(shape) : shape \in [1..MaxChain -> {"object", "array"}]}

NextNested ==
    \/ \E value \in NestedCells : RenderCell(value)
    \/ \E k \in 1..1 : ToggleObjectTable(k)
    \/ \E i \in 1..1 : ToggleArrayInNestedTable(i)
    \/ ToggleArrayExpansion
SpecNested == Init /\ [][NextNested]_vars

(* The file reads: files are selected or dropped, and their reads complete *)
(* or fail in any order                                                    *)
FileTexts ==
    {JsonText(Arr(<< Obj(<< <<Key("a"), Num(1)>> >>) >>)),
     JsonText(Arr(<< Obj(<< <<Key("b"), Num(2)>> >>) >>)),
     BadText({"Unexpected token"})}

NextFiles ==
    \/ \E text \in FileTexts : ProcessFile(text)
    \/ \E i \in 1..MaxReads : ReaderLoad(i)
    \/ \E i \in 1..MaxReads : ReaderError(i)
SpecFiles == Init /\ [][NextFiles]_vars

(* The themes: the page is loaded on a system of either theme with any     *)
(* settings an earlier session may have stored, the theme is toggled and   *)
(* set, the automatic mode is switched, the system changes its theme, the  *)
(* settings are reset; the storage works, is full or is denied             *)
StoredThemeSettings ==
    {NoThemeSettings} \cup
    {ThemeSettings(c, a, s) : c \in Themes, a \in BOOLEAN, s \in Themes}
InitTheme ==
    /\ storageMode \in {"ok", "quota", "denied"}
    /\ storedTypes = NoStoredTypes
    /\ containerWidth = 1200
    /\ engine = "v8"
    /\ jsonInput = BlankText
    /\ InitViewerFields
    /\ theme \in {ThemeManager(detected, stored) :
                     detected \in Themes, stored \in StoredThemeSettings}
NextTheme ==
    \/ ToggleTheme
    \/ \E newTheme \in Themes \cup {"blue"} : SetTheme(newTheme)
    \/ \E enabled \in BOOLEAN : SetAutoTheme(enabled)
    \/ \E matches \in BOOLEAN : SystemThemeChange(matches)
    \/ ResetThemeSettings
SpecTheme == InitTheme /\ [][NextTheme]_vars

(* The timers: the text box is edited, parsed and cleared, search terms   *)
(* are typed, the window is resized, and the timers fire at any moment     *)
TimerData == Arr(<< Obj(<< <<Key("a"), Str(Key("x"))>> >>),
                    Obj(<< <<Key("a"), Str(Key("y"))>> >>) >>)
TimerTexts == {BlankText, JsonText(TimerData)}
TimerTerms == {<<"x">>, <<"y">>}
TimerWidths == {400, 1200}

InitTimers == InitPlain /\ engine = "v8" /\ jsonInput = BlankText
NextTimers ==
    \/ \E text \in TimerTexts : InputText(text)
    \/ AutoSaveFire
    \/ ParseClick
    \/ \E term \in TimerTerms : SearchInput(term)
    \/ SearchFire
    \/ \E width \in TimerWidths : Resize(width)
    \/ ResizeFire
    \/ WidthPassFire
    \/ ClearSearch
    \/ ClearData
SpecTimers == InitTimers /\ [][NextTimers]_vars

(* The formats: a dataset whose column a holds one value in its first row *)
(* and is absent from its second is parsed, and the type of a column is    *)
(* changed                                                                 *)
FormatNumbers ==
    {Num(0 - 1), Num(0), Num(1), Num(3661), Num(86399), Num(86400),
     Num(999999999), Big(1, 0), Big(1, 1), Big(9, 999999999), Big(10, 0),
     Big(999, 999999999), Big(1000, 0), Big(1000, 1), Big(9999, 999999999),
     Big(10000, 0), Big(8640000, 0), Big(8640000, 1)}
FormatValues ==
    FormatNumbers \cup
    {Str(Key("x")), Str(Key("2020")), Bool(TRUE), Bool(FALSE), Null,
     Arr(<<>>), Arr(<<Num(1)>>), Obj(<<>>), Obj(<< <<Key("a"), Num(1)>> >>)}
FormatDatasets ==
    {Arr(<< Obj(<< <<Key("a"), value>> >>), Obj(<< <<Key("b"), Num(1)>> >>) >>) :
        value \in FormatValues}

InitFormat == InitPlain /\ engine = "v8" /\ jsonInput \in {JsonText(d) : d \in FormatDatasets}
NextFormat ==
    \/ (lastOp.op = "init" /\ ParseClick)
    \/ \E j \in 1..Len(tableHead), newType \in DisplayTypes : ChangeColumnType(j, newType)
SpecFormat == InitFormat /\ [][NextFormat]_vars

---------------------------------------------------------------------------
(* Properties of the inference and of the cells rendered from it *)

IsFlatObject(x) ==
    /\ x.t = "object"
    /\ \A i \in 1..Len(x.v) : x.v[i][2].t \notin {"object", "array"}
Parsed == lastOp.op \in {"parseJSON", "parseClick"}
Rendered == lastOp.op = "parseClick"
Rows == result.data.v
Columns == [j \in 1..Len(tableHead) |-> tableHead[j].column]
KeySet(x) == {Keys(x)[j] : j \in 1..Len(Keys(x))}
IsAbsentCell(cell) == cell.data = Undefined /\ cell.isNullText

ArrayOfFlatObjects ==
    /\ jsonInput.kind = "json"
    /\ jsonInput.val.t = "array"
    /\ Len(jsonInput.val.v) > 0
    /\ \A i \in 1..Len(jsonInput.val.v) : IsFlatObject(jsonInput.val.v[i])

\* C1: for a non-empty array of flat objects the rows are the elements, in
\* input order and unchanged; the headers are the union of the keys of all
\* rows in ascending string order without repetition; the body has one row per
\* element, and a row that lacks a header key has an absent cell there.
C1_RowsAndSortedUnionHeaders ==
    (Rendered /\ ArrayOfFlatObjects) =>
        /\ result.success
        /\ Rows = jsonInput.val.v
        /\ result.rowCount = Len(jsonInput.val.v)
        /\ shown = "table"
        /\ {Columns[j] : j \in 1..Len(Columns)} =
               UNION {KeySet(Rows[i]) : i \in 1..Len(Rows)}
        /\ \A j \in 1..Len(Columns) - 1 : KeyLess(Columns[j], Columns[j + 1])
        /\ Len(tableBody) = Len(Rows)
        /\ \A i \in 1..Len(tableBody) :
              /\ tableBody[i].index = i - 1
              /\ Len(tableBody[i].cells) = Len(Columns)
              /\ \A j \in 1..Len(Columns) :
                    ~HasOwn(Rows[i], Columns[j]) => IsAbsentCell(tableBody[i].cells[j])

\* the scenario [{"b":1},{"a":1}]: headers [a, b], each row absent in the other's column
C1_Witness ==
    /\ Rendered
    /\ jsonInput = JsonText(Arr(<< Obj(<< <<Key("b"), Num(1)>> >>),
                                   Obj(<< <<Key("a"), Num(1)>> >>) >>))
    /\ Columns = <<Key("a"), Key("b")>>
    /\ IsAbsentCell(tableBody[1].cells[1])
    /\ tableBody[1].cells[2].data = Num(1)
    /\ IsAbsentCell(tableBody[2].cells[2])

\* C2: parsing the text of any JSON value succeeds with error = null and a
\* table as data; success never comes with an error.
C2_ValidJsonAlwaysSucceeds ==
    (Parsed /\ jsonInput.kind = "json") =>
        /\ result.success
        /\ result.error = NoError
        /\ result.data = Arr(extractTableData(jsonInput.val).rows)
        /\ ~extractTableData(jsonInput.val).threw

IndicesOfArrays(o) == {i \in 1..Len(o.v) : o.v[i][2].t = "array"}
\* the first, in key order, of the longest array-valued properties
SelectedArray(o) ==
    LET i == CHOOSE i \in IndicesOfArrays(o) :
                 \A j \in IndicesOfArrays(o) :
                     \/ Len(o.v[j][2].v) < Len(o.v[i][2].v)
                     \/ Len(o.v[j][2].v) = Len(o.v[i][2].v) /\ i <= j
    IN o.v[i][2]

ObjectWithArrays ==
    /\ jsonInput.kind = "json"
    /\ jsonInput.val.t = "object"
    /\ IndicesOfArrays(jsonInput.val) # {}

\* C3: for an object with an array-valued property the table is what the
\* array rule yields for the longest such array, the first of the longest.
C3_LongestArrayByArrayRule ==
    (Parsed /\ ObjectWithArrays) =>
        /\ result.success
        /\ result.error = NoError
        /\ ~extractTableData(SelectedArray(jsonInput.val)).threw
        /\ Rows = extractTableData(SelectedArray(jsonInput.val)).rows

ArrayOfArrays ==
    /\ jsonInput.kind = "json"
    /\ jsonInput.val.t = "array"
    /\ Len(jsonInput.val.v) > 0
    /\ \A i \in 1..Len(jsonInput.val.v) : jsonInput.val.v[i].t = "array"
WidestRow == SeqMax([i \in 1..Len(jsonInput.val.v) |-> Len(jsonInput.val.v[i].v)])

FlatObjectInput == jsonInput.kind = "json" /\ IsFlatObject(jsonInput.val)

\* C5: a flat object yields one row {key, value} per own property, in
\* property order; the empty object yields no row.
C5_FlatObjectKeyValueRows ==
    (Parsed /\ FlatObjectInput) =>
        /\ result.success
        /\ result.error = NoError
        /\ Len(Rows) = Len(jsonInput.val.v)
        /\ result.rowCount = Len(jsonInput.val.v)
        /\ \A i \in 1..Len(Rows) :
              /\ Rows[i].t = "object"
              /\ Keys(Rows[i]) = <<Key("key"), Key("value")>>
              /\ GetProp(Rows[i], Key("key")) = Str(jsonInput.val.v[i][1])
              /\ GetProp(Rows[i], Key("value")) = jsonInput.val.v[i][2]

C5_Witness ==
    /\ Parsed
    /\ jsonInput = JsonText(Obj(<< <<Key("b"), Str(Key("x"))>>, <<Key("a"), Null>> >>))
    /\ Len(Rows) = 2
    /\ GetProp(Rows[1], Key("key")) = Str(Key("b"))
    /\ GetProp(Rows[2], Key("value")) = Null

\* the leaves of an object with their dotted paths, in document order
RECURSIVE LeafList(_, _)
LeafList(prefix, props) ==
    IF props = <<>> THEN <<>>
    ELSE LET path == prefix \o Head(props)[1]
             value == Head(props)[2]
         IN (IF value.t = "object" THEN LeafList(path, value.v)
             ELSE << <<path, value>> >>) \o LeafList(prefix, Tail(props))

NestedObjectInput ==
    /\ jsonInput.kind = "json"
    /\ jsonInput.val.t = "object"
    /\ IndicesOfArrays(jsonInput.val) = {}
    /\ \E i \in 1..Len(jsonInput.val.v) : jsonInput.val.v[i][2].t = "object"

\* C6: an object with no array-valued property and an object-valued one
\* yields one row; its keys are the dotted paths of the leaves, one key per
\* leaf, each mapped to the value of that leaf.
C6_OneKeyPerLeaf ==
    (Parsed /\ NestedObjectInput) =>
        LET leaves == LeafList(<<>>, jsonInput.val.v)
        IN /\ result.success
           /\ Len(Rows) = 1
           /\ KeySet(Rows[1]) = {leaves[i][1] : i \in 1..Len(leaves)}
           /\ Len(Rows[1].v) = Len(leaves)
           /\ \A i \in 1..Len(leaves) : GetProp(Rows[1], leaves[i][1]) = leaves[i][2]

\* C7: the cell rendered under header h of a row that stores a value under
\* the key h shows that value, also when h is a dot-path key.
C7_StoredValueShown ==
    (Rendered /\ result.success /\ shown = "table" /\ result.error = NoError) =>
        \A i \in 1..Len(tableBody) : \A j \in 1..Len(Columns) :
            HasOwn(Rows[i], Columns[j]) =>
                tableBody[i].cells[j].data = GetProp(Rows[i], Columns[j])

PatternOrder ==
    <<"Unexpected token", "Unexpected end of JSON input", "Unexpected string",
      "Unexpected number", "Unexpected identifier">>
ClassOrder ==
    <<"malformed-token", "truncated-input", "malformed-string",
      "malformed-number", "invalid-identifier">>
\* the classification by the first pattern, in the fixed order, that matches
Classified(message) ==
    IF \E i \in 1..5 : PatternOrder[i] \in message.has
    THEN ErrorOf(ClassOrder[CHOOSE i \in 1..5 :
                     /\ PatternOrder[i] \in message.has
                     /\ \A j \in 1..(i - 1) : PatternOrder[j] \notin message.has],
                 NoMessage)
    ELSE ErrorOf("generic", message)
IsFailure ==
    /\ ~result.success
    /\ result.data = Null
    /\ result.rowCount = 0
    /\ result.columnCount = 0

\* C8 as stated: every text that is not valid JSON yields a failure whose
\* error is one of the six classifications, chosen by the first match.
C8_EveryInvalidTextClassified ==
    (lastOp.op = "parseJSON" /\ jsonInput.kind # "json") =>
        IsFailure /\ result.error = Classified(jsonInput.msg)

\* C8 amended: a text that is not blank and not valid JSON yields a failure
\* with the classification of the first matching pattern; a blank text yields
\* a failure with the separate no-input message.
C8_InvalidTextClassifiedBlankApart ==
    (lastOp.op = "parseJSON" /\ jsonInput.kind # "json") =>
        /\ IsFailure
        /\ jsonInput.kind = "bad" => result.error = Classified(jsonInput.msg)
        /\ jsonInput.kind = "blank" => result.error = ErrorOf("empty-input", NoMessage)

\* a message with two patterns: the earlier one in the order decides
C8_Witness ==
    /\ lastOp.op = "parseJSON"
    /\ jsonInput = BadText({"Unexpected string", "Unexpected end of JSON input"})
    /\ result.error.class = "truncated-input"

---------------------------------------------------------------------------
(* Properties of the viewer *)

DisplayEvents == {"handleSearch", "searchTable", "clearSearch", "resize", "adjustTableToWindow"}

\* C9: once a failed parse has put up the error state, a search input, the
\* firing of the search timer, a clear-search or a resize leaves the error
\* state up and shows no table rows.
C9_ErrorStateStays ==
    [][(shown = "error" /\ lastOp'.op \in DisplayEvents) =>
           (shown' = "error" /\ shown' # "table")]_vars

SortedRows == [i \in 1..Len(tableBody) |-> tableBody[i].row]
SortValueOf(row) == GetProp(row, lastOp.column)
SortDone == lastOp.op = "sortTable" /\ ~lastOp.threw

\* C10: in the row order sortTable produces, for either direction, the rows
\* are those of the dataset and no row whose value in the sort column is null
\* or absent comes before a row whose value there is not null.
C10_NullsLast ==
    SortDone =>
        /\ Len(SortedRows) = Len(currentData.v)
        /\ {SortedRows[i] : i \in 1..Len(SortedRows)} =
               {currentData.v[i] : i \in 1..Len(currentData.v)}
        /\ \A i, j \in 1..Len(SortedRows) :
              (i < j /\ IsNullish(SortValueOf(SortedRows[i]))) =>
                  IsNullish(SortValueOf(SortedRows[j]))

\* a descending sort of a dataset that starts with a null and an absent value
C10_Witness ==
    /\ SortDone
    /\ lastOp.direction = "desc"
    /\ lastOp.column = Key("a")
    /\ Len(SortedRows) = 3
    /\ IsNullish(SortValueOf(currentData.v[1]))
    /\ IsNullish(SortValueOf(currentData.v[2]))
    /\ ~IsNullish(SortValueOf(currentData.v[3]))
    /\ SortedRows[1] = currentData.v[3]

\* the values of two rows in the sort column compare equal: both are null or
\* absent, or the comparator returns 0 for them
SortEqual(a, b) ==
    \/ IsNullish(SortValueOf(a)) /\ IsNullish(SortValueOf(b))
    \/ /\ ~IsNullish(SortValueOf(a)) /\ ~IsNullish(SortValueOf(b))
       /\ sortCompare(a, b, lastOp.column, lastOp.direction) = 0
PositionIn(data, row) == CHOOSE i \in 1..Len(data) : data[i] = row

\* C11: sortTable is stable and idempotent: rows whose values in the sort
\* column compare equal (two null or absent values included) keep the order
\* they have in the dataset, and sorting the sorted rows again by the same
\* column and direction gives the same order.
C11_StableAndIdempotent ==
    SortDone =>
        /\ \A i, j \in 1..Len(SortedRows) :
              (i < j /\ SortEqual(SortedRows[i], SortedRows[j])) =>
                  PositionIn(currentData.v, SortedRows[i])
                      < PositionIn(currentData.v, SortedRows[j])
        /\ sortedData(SortedRows, lastOp.column, lastOp.direction) = SortedRows

---------------------------------------------------------------------------
(* Properties of searching *)

SearchDone == lastOp.op = "searchTable"
\* the rows on display: those of the table body while the table is shown
DisplayedRows == IF shown = "table" THEN SortedRows ELSE <<>>
\* the string form of the value of some column of the row contains the term,
\* whatever the case of the letters
ColumnValueContains(row, term) ==
    /\ row # Null
    /\ \E j \in 1..Len(extractHeaders(currentData.v)) :
          LET val == GetProp(row, extractHeaders(currentData.v)[j])
          IN /\ val # Undefined
             /\ includes(toLowerCase(StringOf(val)), toLowerCase(term))

\* C12: searching is a pure filter: the rows searchTable(term, rows) displays
\* are the rows in which the string form of some column value contains the
\* term case-insensitively, in their original order; searchTable('', rows)
\* displays exactly rows; the dataset passed in is not modified.
C12_SearchIsPureFilter ==
    SearchDone =>
        /\ currentData = result.data
        /\ DisplayedRows =
              IF lastOp.term = <<>> THEN currentData.v
              ELSE SelectSeq(currentData.v,
                             LAMBDA row : ColumnValueContains(row, lastOp.term))

---------------------------------------------------------------------------
(* Properties of the column widths *)

AppliedWidths == [j \in 1..Len(tableHead) |-> tableHead[j].width]

\* C13: once the width pass of a render has finished (adjustTableToWindow,
\* then optimizeColumnWidths) the widths applied to the columns sum to at
\* most the available width (the container width less 60), or every width
\* is the minimal column width.
C13_WidthPlan ==
    (lastOp.op = "widthPass" /\ Len(tableHead) > 0) =>
        \/ Sum(AppliedWidths) <= containerWidth - 60
        \/ \A j \in 1..Len(tableHead) : AppliedWidths[j] = minColumnWidth

---------------------------------------------------------------------------
(* Properties of the column types *)

\* the step rebuilt the table body: a parse of valid text, a search or a
\* clear-search that shows the table, a sort that went through
RenderStep ==
    /\ lastOp'.op \in {"parseClick", "searchTable", "clearSearch", "sortTable"}
    /\ ~lastOp'.threw
    /\ shown' = "table"
    /\ lastOp'.op = "parseClick" => (jsonInput.kind # "blank" /\ result'.success)
\* the column keys in use before or after the step
TypeKeys ==
    DOMAIN columnTypes \cup DOMAIN columnTypes'
        \cup {tableHead'[j].column : j \in 1..Len(tableHead')}
\* every cell of the column in the body after the step is formatted with the type
FormattedWith(column, type) ==
    \A i \in 1..Len(tableBody') : \A j \in 1..Len(tableHead') :
        tableHead'[j].column = column => tableBody'[i].cells[j].displayType = type

\* C14: the type of a column is keyed by the column key alone and is auto
\* unless set: changeColumnType(c, T) sets the type of c and of no other
\* key, no other operation (render, sort, search, parse of another input,
\* clearData) changes the type of any key, and every render formats each
\* column with the type of its key.
C14_TypesKeyedByColumn ==
    [][/\ lastOp'.op = "changeColumnType" =>
            /\ columnTypeOf(columnTypes', lastOp'.column) = lastOp'.type
            /\ \A k \in TypeKeys \ {lastOp'.column} :
                   columnTypeOf(columnTypes', k) = columnTypeOf(columnTypes, k)
       /\ lastOp'.op # "changeColumnType" =>
            \A k \in TypeKeys : columnTypeOf(columnTypes', k) = columnTypeOf(columnTypes, k)
       /\ RenderStep =>
            \A k \in TypeKeys : FormattedWith(k, columnTypeOf(columnTypes', k))]_vars

\* the types of the columns a and b were set while the first dataset was
\* shown (the second has no column b); the second dataset is parsed and
\* rendered, and its column a has the type set for a
C14_Witness ==
    /\ lastOp.op = "parseClick"
    /\ shown = "table"
    /\ currentData = TypesB
    /\ columnTypes = (Key("a") :> "number-hex") @@ (Key("b") :> "string")
    /\ tableBody[1].cells[1].displayType = "number-hex"

\* C15: when saving the column types fails, the type just set by
\* changeColumnType(c, T) stays in effect: the render that follows the
\* change formats column c with T, whatever the storage holds.
C15_TypeKeptWhenSaveFails ==
    [][(lastOp.op = "changeColumnType" /\ RenderStep) =>
           FormattedWith(lastOp.column, lastOp.type)]_vars

\* C20: all the cells of a displayed row come from one and the same row
\* record, after any sequence of sorts, searches and type changes.
C20_CellsOfOneRow ==
    shown = "table" =>
        \A i \in 1..Len(tableBody) : \A j \in 1..Len(tableBody[i].cells) :
            tableBody[i].cells[j].row = tableBody[i].row

---------------------------------------------------------------------------
(* Properties of the formats *)

\* the cells renderCellWithType has filled
TypedCells ==
    {tableBody[i].cells[j] : i \in 1..Len(tableBody), j \in 1..Len(tableHead)}

\* number-time as it is described: by the magnitude of v, seconds in
\* [10^9, 10^10), HH:MM:SS in (0, 86400), milliseconds otherwise
TimeOf(value) ==
    LET n == LimbsOf(value)
    IN IF ~LimbsLess(n, Limbs(1, 0)) /\ LimbsLess(n, Limbs(10, 0))
           THEN Text("datetime", <<>>, TimesThousand(n))
       ELSE IF value.v > 0 /\ LimbsLess(n, Limbs(0, 86400))
           THEN Chars(padStart2(n.lo \div 3600) \o <<":">> \o
                      padStart2((n.lo % 3600) \div 60) \o <<":">> \o
                      padStart2(n.lo % 60))
       ELSE Text("datetime", <<>>, n)

\* C16: with the type number-time a number v in [1e9, 1e10) is shown as the
\* instant v seconds, a number in (0, 86400) as HH:MM:SS, and every other
\* number (those in [1e12, 1e13) included) as the instant v milliseconds,
\* wherever that instant is a valid date.
C16_TimeBranches ==
    \A cell \in TypedCells :
        (cell.displayType = "number-time" /\ cell.data.t = "number"
            /\ (TimeOf(cell.data).kind = "datetime" => ValidDate(TimeOf(cell.data).ms)))
        => cell.text = TimeOf(cell.data)

\* the conversion of the type does not apply to the value
NotApplicable(value, displayType) ==
    \/ displayType \in {"number-time", "number-hex", "number-binary"} /\ value.t # "number"
    \/ displayType = "date" /\ value.t = "string" /\ ~dateParses(value)
    \/ displayType \in {"date", "number-time"} /\ value.t = "number"
         /\ value.v >= 0 /\ ~ValidDate(LimbsOf(value))

\* C17: whatever the type and the value (string, number, boolean, null,
\* absent, array, object), the cell text renderCellWithType produces is not
\* empty, and it is the literal string form of the value whenever the
\* conversion does not apply.
C17_NeverBlank ==
    \A cell \in TypedCells :
        /\ (cell.text.kind = "chars" => cell.text.chars # <<>>)
        /\ NotApplicable(cell.data, cell.displayType)
               => cell.text = Chars(StringOf(cell.data))

---------------------------------------------------------------------------
(* Properties of the timers *)

\* C18: each debounced channel holds one pending call, that of the last
\* event: after an event of the search box no pending search carries the
\* term of an earlier event, after an edit of the text box the pending
\* auto-save carries the state read at that edit, after a resize one
\* adjustment is pending, and a call that fires leaves none pending.
C18_BurstCoalesced ==
    [][/\ lastOp'.op = "handleSearch" =>
            (searchTimeout'.pending => searchTimeout'.term = lastOp'.term)
       /\ lastOp'.op = "input" =>
            (autoSaveTimer'.pending /\ autoSaveTimer'.state = jsonInput')
       /\ lastOp'.op = "resize" => resizeTimeout'
       /\ lastOp'.op = "searchTable" => ~searchTimeout'.pending
       /\ lastOp'.op = "saveState" => ~autoSaveTimer'.pending
       /\ lastOp'.op = "adjustTableToWindow" => ~resizeTimeout']_vars

---------------------------------------------------------------------------
(* Properties of the calls on any inferred table *)

\* C19: for every inferred table, sort column, direction and search term,
\* sortTable and searchTable complete: no exception leaves the call.
C19_NoExceptionEscapes ==
    lastOp.op \in {"sortTable", "searchTable"} => ~lastOp.threw

---------------------------------------------------------------------------
(* Properties of the row index *)

\* a search has rebuilt the table
SearchRendered == SearchDone /\ shown = "table"

\* C21 as stated: after a search, the index recorded on every displayed row
\* (data-row-index) identifies that same row in the original, unfiltered
\* dataset.
C21_IndexInOriginal ==
    SearchRendered =>
        \A i \in 1..Len(tableBody) :
            /\ tableBody[i].index + 1 <= Len(currentData.v)
            /\ currentData.v[tableBody[i].index + 1] = tableBody[i].row

\* C21 amended: after a search, the index recorded on every displayed row
\* identifies that same row in the dataset the renderer holds (the filtered
\* rows, which getCellDataFromElement reads), not in the unfiltered dataset.
C21_IndexInRendered ==
    SearchRendered =>
        \A i \in 1..Len(tableBody) :
            /\ tableBody[i].index + 1 <= Len(rCurrentData.v)
            /\ rCurrentData.v[tableBody[i].index + 1] = tableBody[i].row

\* a search has dropped the first row of the dataset and displays the second
C21_Witness ==
    /\ SearchRendered
    /\ ~lastOp.threw
    /\ Len(currentData.v) = 2 /\ Len(tableBody) = 1
    /\ tableBody[1].row = currentData.v[2]
    /\ tableBody[1].row # currentData.v[1]

---------------------------------------------------------------------------
(* Properties of the sort clicks *)

\* C24: a click on a header that is marked as sorted ascending sorts
\* descending, and a click on a header marked otherwise sorts ascending.
C24_DirectionToggles ==
    [][lastOp'.op = "sortTable" =>
           \A j \in 1..Len(tableHead) :
               tableHead[j].column = lastOp'.column =>
                   lastOp'.direction =
                       IF tableHead[j].ariaSort = "ascending" THEN "desc" ELSE "asc"]_vars

\* the records on display, each with the number of rows that show it
RowCounts(body) ==
    [row \in {body[i].row : i \in 1..Len(body)} |->
        Cardinality({i \in 1..Len(body) : body[i].row = row})]

\* C25: a sort click made while the rows of a search with a non-empty term
\* are displayed shows the same rows, reordered.
C25_SortKeepsFilter ==
    [][(/\ lastOp.op = "searchTable" /\ ~lastOp.threw
        /\ trim(lastOp.term) # <<>> /\ shown = "table"
        /\ lastOp'.op = "sortTable" /\ ~lastOp'.threw)
       => RowCounts(tableBody') = RowCounts(tableBody)]_vars

---------------------------------------------------------------------------
(* Properties of the 'no results' message *)

\* C29: at most one 'no results' message is present, and none is while the
\* table is displayed (after a search with matches or with an empty term, a
\* clearSearch or a parse).
C29_NoResultsIsLatest ==
    /\ noResults <= 1
    /\ shown = "table" => noResults = 0

---------------------------------------------------------------------------
(* Properties of the deferred calls *)

\* the operations that render or measure the table
TriggeredOps ==
    {"parseClick", "sortTable", "searchTable", "clearSearch", "changeColumnType",
     "adjustTableToWindow"}

\* C23: no triggering event (parse, sort, search, column-type change,
\* resize) is processed while the width pass of a render is still pending.
C23_RenderCompletesFirst ==
    [][widthTimer => lastOp'.op \notin TriggeredOps]_vars

\* C26: a search call that fires never runs against a null dataset, and one
\* that fires right after clearSearch leaves the full dataset on display.
C26_ClearCancelsSearch ==
    [][lastOp'.op = "searchTable" =>
           /\ currentData # Null
           /\ lastOp.op = "clearSearch" =>
                  (shown' = shown /\ RowCounts(tableBody') = RowCounts(tableBody))]_vars

\* C27: an auto-save that fires right after clearData leaves no persisted
\* state, and one that fires right after the immediate save of a parse
\* leaves the saved jsonInput as that save wrote it.
C27_SavedStateNeverOlder ==
    [][lastOp'.op = "saveState" =>
           /\ lastOp.op = "clearData" => ~savedState'.present
           /\ (lastOp.op = "parseClick" /\ savedState.present
                  /\ savedState.state = jsonInput)
               => savedState'.state = jsonInput]_vars

---------------------------------------------------------------------------
(* Properties of the nested values *)

\* C22: a nested value reached at depth 5 or more along a chain of
\* expansions, through objects and through arrays alike, is rendered as raw
\* JSON text (or as the text of a primitive) with no expand toggle.
C22_DepthBounded ==
    nested.level >= CutoffDepth => nested.kind \in {"raw", "leaf"}

---------------------------------------------------------------------------
(* Properties of the file reads *)

\* C28: once the reads in flight have all completed and the read of the
\* file requested last has loaded, the text box holds the content of that
\* file and the last parse is the parse of it; a read that fails leaves the
\* text box and the table as they were.
C28_LastFileWins ==
    [][/\ lastOp'.op = "fileError" =>
            (jsonInput' = jsonInput /\ shown' = shown /\ tableBody' = tableBody)
       /\ (lastOp'.op \in {"fileLoaded", "fileError"}
              /\ reads'.pending = <<>> /\ reads'.lastState = "loaded")
           => (jsonInput' = reads'.last /\ result' = parseJSON(reads'.last))]_vars

---------------------------------------------------------------------------
(* Properties of the theme *)

\* C30: the theme applied to the document equals currentTheme, after the
\* page is loaded and after any toggleTheme, setTheme, setAutoTheme and
\* change of the system theme.
C30_AppliedIsCurrent ==
    theme.applied = theme.currentTheme

====
